---- MODULE Spec2Model ----
(***************************************************************************)
(* Model of the run orchestration state machine of naoko_core:             *)
(* main() -> Orchestrator.__init__ -> Orchestrator.run, with the session   *)
(* store (progress record, run log) and the artifact files it reads and    *)
(* writes.  The generation agents are collaborators: every call returns    *)
(* one of the outcomes its code can produce, chosen nondeterministically.  *)
(* A call is modelled by what the callee does with the arguments it        *)
(* declares (GeminiClient takes root_dir and dry_run; review takes the     *)
(* patch path, the requirements path and the round number).  refine hands  *)
(* the loop any judgement the loop dispatches on.                          *)
(***************************************************************************)
EXTENDS Integers, Sequences, FiniteSets, TLC

\* ------------------------------------------------------------------ bounds
MaxRounds == 2      \* largest --max-rounds value explored
MaxRuns == 2        \* number of invocations of main() explored

\* --------------------------------------------------------------- constants
None == "None"                                   \* Python's None
NoFile == [exists |-> FALSE, lines |-> <<>>]      \* a path that does not exist
SessionIds == {"s1"}                             \* the session ids in play
EntryPoint == "src/UserController.java"
ReqPath == "artifacts/requirements_request.md"   \* GeminiClient.plan output_path
PatchPath == "artifacts/patch.diff"              \* CodexClient.implement output_path
ReviewPath == "artifacts/review.md"              \* GeminiClient.review output_path
StylePath == "src/CODING_STYLE.md"               \* analyze_style style_path
Statuses == {"SUITABLE", "FAILED", "HOLD", "CHANGES_NEEDED", "UNNECESSARY"}
Collaborators == {"analyze_style", "plan", "implement", "review", "refine",
                  "confirm", "commit"}

VARIABLES
    \* ---- file system
    docExists,        \* os.path.exists(doc_path)
    reqFile,          \* requirements artifact: "missing" | "empty" | "nonempty"
    patchFile,        \* patch.diff exists
    reviewFile,       \* review.md exists
    styleFile,        \* CODING_STYLE.md exists
    sessionDir,       \* [SessionIds -> BOOLEAN]: artifacts/sessions/<id>/ exists
    progress,         \* [SessionIds -> progress.md: NoFile or File(lines)]
    runLog,           \* [SessionIds -> run_log.md: exists, number of lines]
    commits,          \* number of git commits made by GitOps.commit
    \* ---- Orchestrator fields
    max_rounds, dry_run, gemini_dry_run, entry_point, existing_project,
    resume, session_id, state,
    \* ---- locals of Orchestrator.run
    pc, style_guide_path, req_path, patch_path, applied, i, loop_success,
    status,
    \* ---- observation of the current run
    runs,             \* invocations of main() so far
    calls,            \* [Collaborators -> Nat]: invocations in the current run
    outcome,          \* which exit of run() the current run took
    seen,             \* the judgements refine returned in the current run
    answer,           \* the last answer Confirm.ask returned in the current run
    startDisk,        \* the session store and artifacts when the run started
    \* ---- the components checked on their own
    store,            \* a load/save round trip of the progress record
    gate,             \* GitOps.validate_patch / apply_patch and the working tree
    cleaner,          \* CodexClient._clean_code applied to a response
    codex,            \* CodexClient.implement / refine and the target file
    planner,          \* GeminiClient.plan on a planning document
    timer,            \* the progress ticker around one blocking backend call
    asker,            \* one review round and the next: review, questions, refine
    committer         \* GitOps.commit and the end of phase 4

fsVars == <<docExists, reqFile, patchFile, reviewFile, styleFile, sessionDir,
            progress, runLog, commits>>
selfVars == <<max_rounds, dry_run, gemini_dry_run, entry_point,
              existing_project, resume, session_id, state>>
localVars == <<pc, style_guide_path, req_path, patch_path, applied, i,
               loop_success, status>>
obsVars == <<runs, calls, outcome, seen, answer, startDisk>>
orchVars == <<fsVars, selfVars, localVars, obsVars>>
auxVars == <<store, gate, cleaner, codex, planner, timer, asker, committer>>
storeRest == <<orchVars, gate, cleaner, codex, planner, timer, asker, committer>>
gateRest == <<orchVars, store, cleaner, codex, planner, timer, asker, committer>>
cleanerRest == <<orchVars, store, gate, codex, planner, timer, asker, committer>>
codexRest == <<orchVars, store, gate, cleaner, planner, timer, asker, committer>>
plannerRest == <<orchVars, store, gate, cleaner, codex, timer, asker, committer>>
timerRest == <<orchVars, store, gate, cleaner, codex, planner, asker, committer>>
askerRest == <<orchVars, store, gate, cleaner, codex, planner, timer, committer>>
committerRest == <<orchVars, store, gate, cleaner, codex, planner, timer, asker>>
vars == <<orchVars, auxVars>>

\* ------------------------------------------------------- the state mapping
\* A Python dict keeps insertion order: a sequence of <<key, value>> pairs
\* with distinct keys.
DictHas(d, k) == \E n \in 1..Len(d) : d[n][1] = k

\* dict.get(k): None when the key is absent
DictGet(d, k) ==
    IF DictHas(d, k) THEN d[CHOOSE n \in 1..Len(d) : d[n][1] = k][2] ELSE None

\* d[k] = v: overwrite in place, or append a new key
DictSet(d, k, v) ==
    IF DictHas(d, k)
    THEN [n \in 1..Len(d) |-> IF d[n][1] = k THEN <<k, v>> ELSE d[n]]
    ELSE Append(d, <<k, v>>)

\* Python truthiness of an optional string
Truthy(v) == v # None /\ v # ""

\* progress.md holds one "key: value" line per entry; a line is kept here as
\* the pair split(":", 1) yields after strip().
RECURSIVE ParseLines(_, _)
ParseLines(lines, acc) ==
    IF lines = <<>> THEN acc
    ELSE ParseLines(Tail(lines), DictSet(acc, Head(lines)[1], Head(lines)[2]))

\* a text file with the given lines
File(lines) == [exists |-> TRUE, lines |-> lines]

load_state(file) == IF ~file.exists THEN <<>> ELSE ParseLines(file.lines, <<>>)

\* the lines _save_state writes for a state mapping
save_state(st) == [n \in 1..Len(st) |-> <<st[n][1], st[n][2]>>]

\* run_log.md is only ever appended to and never read: it is kept as its
\* number of lines
NoLog == [exists |-> FALSE, lines |-> 0]

\* _log_run: append one line, creating the file when missing
log_run(file, message) == [exists |-> TRUE, lines |-> file.lines + 1]

ZeroCalls == [c \in Collaborators |-> 0]
Disk == [req |-> reqFile, patch |-> patchFile, review |-> reviewFile,
         style |-> styleFile, dir |-> sessionDir, progress |-> progress,
         log |-> runLog, commits |-> commits]

\* -------------------------------------------------------------------- Init
\* the orchestrator before main() is invoked
OrchInit ==
    /\ docExists \in BOOLEAN
    /\ reqFile \in {"missing", "empty", "nonempty"}
    /\ patchFile = FALSE
    /\ reviewFile = FALSE
    /\ styleFile = FALSE
    /\ sessionDir = [s \in SessionIds |-> FALSE]
    /\ progress = [s \in SessionIds |-> NoFile]
    /\ runLog = [s \in SessionIds |-> NoLog]
    /\ commits = 0
    /\ max_rounds = 0
    /\ dry_run = FALSE
    /\ gemini_dry_run = FALSE
    /\ entry_point = None
    /\ existing_project = FALSE
    /\ resume = None
    /\ session_id = None
    /\ state = <<>>
    /\ pc = "idle"
    /\ style_guide_path = None
    /\ req_path = None
    /\ patch_path = None
    /\ applied = FALSE
    /\ i = 0
    /\ loop_success = FALSE
    /\ status = None
    /\ runs = 0
    /\ calls = ZeroCalls
    /\ outcome = "none"
    /\ seen = {}
    /\ answer = None
    /\ startDisk = Disk

\* a component that is not exercised
StoreIdle == [step |-> "idle", orig |-> <<>>, state |-> <<>>,
              file |-> <<>>, file2 |-> <<>>]

GateIdle == [pc |-> "idle", op |-> "none", patch |-> "missing", dry_run |-> FALSE,
             tree |-> 0, before |-> 0, checks |-> 0, applies |-> 0,
             calls |-> 0, rc |-> "none", result |-> "none"]

CleanerIdle == [step |-> "idle", blocks |-> <<>>, text |-> <<>>, out |-> <<>>]

LastNone == [tier |-> "none", out |-> "none"]

RetNone == [expected |-> FALSE, empty |-> TRUE, marked |-> FALSE,
            answered |-> FALSE, seen |-> FALSE, last |-> LastNone]

CodexIdle == [pc |-> "idle", op |-> "none", dry_run |-> FALSE,
              has_codex_cli |-> FALSE, token |-> FALSE, expected |-> FALSE,
              pass |-> 0, failures |-> 0, answered |-> FALSE, ret |-> RetNone,
              tried |-> <<>>, last |-> LastNone, slept |-> FALSE, api_logs |-> 0,
              old |-> <<>>, target_exists |-> FALSE, target |-> <<>>,
              writer |-> "none", written_pass |-> 0, last_target |-> FALSE,
              result |-> "none"]

PlannerIdle == [step |-> "idle", ext |-> ".md", doc |-> "text", dry_run |-> FALSE,
                parsed |-> "", asked |-> 0, req |-> "missing", result |-> "",
                proceeds |-> FALSE]

TimerIdle == [pc |-> "idle", backend |-> "none", depth |-> 0, started |-> 0,
              stopped |-> 0, exit |-> "none", failures |-> 0, ticked |-> FALSE]

AskerIdle == [pc |-> "idle", later |-> FALSE, exists |-> FALSE, file |-> <<>>,
              fresh |-> FALSE, content |-> <<>>, questions |-> <<>>,
              answers |-> <<>>, last_event |-> "none", refined |-> FALSE,
              consumed |-> <<>>, status |-> "none"]

CommitterIdle == [pc |-> "idle", dry_run |-> FALSE, existing_project |-> FALSE,
                  git_installed |-> TRUE, repo |-> TRUE, dirty |-> FALSE,
                  staged |-> FALSE, hook_ok |-> TRUE, committed |-> FALSE,
                  failed |-> "none", phase4_status |-> "none"]

AuxIdle ==
    /\ store = StoreIdle /\ gate = GateIdle /\ cleaner = CleanerIdle
    /\ codex = CodexIdle /\ planner = PlannerIdle /\ committer = CommitterIdle /\ asker = AskerIdle /\ timer = TimerIdle

Init == OrchInit /\ AuxIdle

\* the orchestrator constructed and never run, while a component is followed
OrchQuiet == OrchInit /\ ~docExists /\ reqFile = "missing"

\* ----------------------------------------------------------------- helpers
\* os.path.exists for the artifact paths the state mapping can hold
PathExists(p) ==
    CASE p = ReqPath -> reqFile # "missing"
      [] p = PatchPath -> patchFile
      [] p = ReviewPath -> reviewFile
      [] p = StylePath -> styleFile
      [] OTHER -> FALSE

Called(c) == [calls EXCEPT ![c] = @ + 1]

\* _save_state leaving the file as it was
Saved_NotWritten(st) == progress

\* progress.md of the running session after _save_state of mapping st
Saved(st) == [progress EXCEPT ![session_id] = File(save_state(st))]

\* run_log.md of the running session after _log_run(message)
Logged(message) == [runLog EXCEPT ![session_id] = log_run(@, message)]

\* mkdir(parents=True, exist_ok=True) of the session directory
DirMade == [sessionDir EXCEPT ![session_id] = TRUE]

\* the run returns: the process ends and main() may be invoked again
Return(how) == pc' = "idle" /\ outcome' = how

\* NextRound with the loop bound off by one
NextRound_OffByOne(k) ==
    IF k <= max_rounds + 1 THEN pc' = "review" /\ i' = k
    ELSE pc' = "phase4" /\ i' = i

\* for i in range(1, max_rounds + 1): enter round k or leave the loop
NextRound(k) ==
    IF k <= max_rounds THEN pc' = "review" /\ i' = k
    ELSE pc' = "phase4" /\ i' = i

\* ------------------------------------------------- main() and __init__
\* secrets.token_hex(4) returns an id not in use yet
FreshIds == {s \in SessionIds : ~sessionDir[s] /\ ~progress[s].exists}

Start(mr, dr, gdr, ep, ex, res, sid) ==
    /\ pc = "idle"
    /\ runs < MaxRuns
    /\ dr => gdr
    /\ IF res # None THEN sid = res ELSE sid \in FreshIds
    /\ max_rounds' = mr
    /\ dry_run' = dr
    /\ gemini_dry_run' = gdr
    /\ entry_point' = ep
    /\ existing_project' = (ex \/ ep # None)
    /\ resume' = res
    /\ session_id' = sid
    /\ state' = load_state(progress[sid])
    /\ pc' = "start"
    /\ style_guide_path' = None
    /\ req_path' = None
    /\ patch_path' = None
    /\ applied' = FALSE
    /\ i' = 0
    /\ loop_success' = FALSE
    /\ status' = None
    /\ runs' = runs + 1
    /\ calls' = ZeroCalls
    /\ outcome' = "none"
    /\ seen' = {}
    /\ answer' = None
    /\ startDisk' = Disk
    /\ UNCHANGED fsVars
    /\ UNCHANGED auxVars

\* ------------------------------------------------------ Orchestrator.run
\* resume_missing with the check left out
resume_missing_Unchecked == FALSE

\* the resume check: an explicit session id without a progress record
resume_missing == Truthy(resume) /\ ~progress[session_id].exists

\* resume check, first run-log line, document check
RunBegin ==
    /\ pc = "start"
    /\ IF resume_missing
       THEN /\ Return("resume_not_found")
            /\ UNCHANGED <<sessionDir, runLog>>
       ELSE /\ sessionDir' = DirMade
            /\ runLog' = Logged("run: start")
            /\ IF ~docExists
               THEN Return("doc_not_found")
               ELSE pc' = "style" /\ UNCHANGED outcome
    /\ UNCHANGED <<docExists, reqFile, patchFile, reviewFile, styleFile,
                   progress, commits, selfVars, style_guide_path, req_path,
                   patch_path, applied, i, loop_success, status, runs, calls,
                   seen, answer, startDisk>>
    /\ UNCHANGED auxVars

\* 1-A: style analysis; r is what analyze_style returns
StyleAnalysis(r) ==
    /\ pc = "style"
    /\ pc' = "plan"
    /\ IF entry_point = None
       THEN /\ r = ""
            /\ style_guide_path' = None
            /\ UNCHANGED <<styleFile, state, progress, runLog, calls>>
       ELSE LET cached_style == DictGet(state, "style_guide_path") IN
            IF Truthy(cached_style) /\ PathExists(cached_style)
            THEN /\ r = ""
                 /\ style_guide_path' = cached_style
                 /\ runLog' = Logged("phase1: reuse style_guide_path")
                 /\ UNCHANGED <<styleFile, state, progress, calls>>
            ELSE /\ calls' = Called("analyze_style")
                 /\ gemini_dry_run => r = ""
                 /\ style_guide_path' = r
                 /\ IF Truthy(r)
                    THEN /\ styleFile' = TRUE
                         /\ state' = DictSet(state, "style_guide_path", r)
                         /\ progress' = Saved(state')
                         /\ runLog' = Logged("phase1: style_guide_path")
                    ELSE UNCHANGED <<styleFile, state, progress, runLog>>
    /\ UNCHANGED <<docExists, reqFile, patchFile, reviewFile, sessionDir,
                   commits, max_rounds, dry_run, gemini_dry_run, entry_point,
                   existing_project, resume, session_id, req_path, patch_path,
                   applied, i, loop_success, status, runs, outcome, seen, answer, startDisk>>
    /\ UNCHANGED auxVars

\* GeminiClient.plan: what it returns and what it leaves in the requirements
\* file, for result r of the generation ("" when nothing was generated) and
\* parsed, whether DocParser.parse returned text
plan_path(parsed, r) ==
    IF ~parsed THEN ""
    ELSE IF gemini_dry_run THEN ReqPath
    ELSE IF r # "" THEN ReqPath ELSE ""

plan_file(parsed, r) ==
    IF parsed /\ ~gemini_dry_run /\ r # "" THEN "nonempty" ELSE reqFile

\* 1-B: requirement planning
Planning(parsed, r) ==
    /\ pc = "plan"
    /\ pc' = "guard1"
    /\ LET cached_req == DictGet(state, "requirements_path") IN
       IF Truthy(cached_req) /\ PathExists(cached_req)
       THEN /\ parsed /\ r = ""
            /\ req_path' = cached_req
            /\ runLog' = Logged("phase1: reuse requirements_path")
            /\ UNCHANGED <<reqFile, state, progress, calls>>
       ELSE /\ calls' = Called("plan")
            /\ (~parsed \/ gemini_dry_run) => r = ""
            /\ req_path' = plan_path(parsed, r)
            /\ reqFile' = plan_file(parsed, r)
            /\ IF Truthy(req_path')
               THEN /\ state' = DictSet(state, "requirements_path", req_path')
                    /\ progress' = Saved(state')
                    /\ runLog' = Logged("phase1: requirements_path")
               ELSE UNCHANGED <<state, progress, runLog>>
    /\ UNCHANGED <<docExists, patchFile, reviewFile, styleFile, sessionDir,
                   commits, max_rounds, dry_run, gemini_dry_run, entry_point,
                   existing_project, resume, session_id, style_guide_path,
                   patch_path, applied, i, loop_success, status, runs, outcome,
                   seen, answer, startDisk>>
    /\ UNCHANGED auxVars

\* RequirementsOk without the size check
RequirementsOk_NoSizeCheck == Truthy(req_path) /\ PathExists(req_path)

\* the guard after planning: the requirements artifact must exist, non-empty
RequirementsOk ==
    Truthy(req_path) /\ PathExists(req_path) /\ reqFile # "empty"

PlanningGuard ==
    /\ pc = "guard1"
    /\ IF ~RequirementsOk
       THEN /\ state' = DictSet(state, "last_failed_phase", "phase1")
            /\ progress' = Saved(state')
            /\ Return("phase1_failed")
       ELSE /\ pc' = "implement"
            /\ UNCHANGED <<state, progress, outcome>>
    /\ UNCHANGED <<docExists, reqFile, patchFile, reviewFile, styleFile,
                   sessionDir, runLog, commits, max_rounds, dry_run,
                   gemini_dry_run, entry_point, existing_project, resume,
                   session_id, style_guide_path, req_path, patch_path, applied,
                   i, loop_success, status, runs, calls, seen, answer, startDisk>>
    /\ UNCHANGED auxVars

\* 2: implementation; ok is whether CodexClient.implement produced a patch
Implementation(ok) ==
    /\ pc = "implement"
    /\ pc' = "guard2"
    /\ LET cached_patch == DictGet(state, "patch_path") IN
       IF /\ Truthy(cached_patch) /\ PathExists(cached_patch)
          /\ DictGet(state, "phase2_applied") = "true"
       THEN /\ ok
            /\ patch_path' = cached_patch
            /\ applied' = TRUE
            /\ runLog' = Logged("phase2: reuse patch_path")
            /\ UNCHANGED <<patchFile, state, progress, calls>>
       ELSE /\ calls' = Called("implement")
            /\ dry_run => ok
            /\ patch_path' = PatchPath
            /\ applied' = ok
            /\ patchFile' = (patchFile \/ (ok /\ ~dry_run))
            /\ IF applied' /\ Truthy(patch_path')
               THEN /\ state' = DictSet(DictSet(state, "patch_path", patch_path'),
                                        "phase2_applied", "true")
                    /\ progress' = Saved(state')
                    /\ runLog' = Logged("phase2: patch_path")
               ELSE UNCHANGED <<state, progress, runLog>>
    /\ UNCHANGED <<docExists, reqFile, reviewFile, styleFile, sessionDir,
                   commits, max_rounds, dry_run, gemini_dry_run, entry_point,
                   existing_project, resume, session_id, style_guide_path,
                   req_path, i, loop_success, status, runs, outcome, seen, answer, startDisk>>
    /\ UNCHANGED auxVars

\* failed_phase2 without the phase2_applied flag
failed_phase2_NoFlag(st) == DictSet(st, "last_failed_phase", "phase2")

\* what the phase 2 abort records
failed_phase2(st) ==
    DictSet(DictSet(st, "last_failed_phase", "phase2"), "phase2_applied", "false")

\* the guard after implementation: the patch must have applied
ImplementationGuard ==
    /\ pc = "guard2"
    /\ IF ~applied
       THEN /\ state' = failed_phase2(state)
            /\ progress' = Saved(state')
            /\ Return("phase2_failed")
            /\ i' = i
       ELSE /\ NextRound(1)
            /\ UNCHANGED <<state, progress, outcome>>
    /\ UNCHANGED <<docExists, reqFile, patchFile, reviewFile, styleFile,
                   sessionDir, runLog, commits, max_rounds, dry_run,
                   gemini_dry_run, entry_point, existing_project, resume,
                   session_id, style_guide_path, req_path, patch_path, applied,
                   loop_success, status, runs, calls, seen, answer, startDisk>>
    /\ UNCHANGED auxVars

\* 3: review of round i; r is the text the review generation produced.
\* review() returns its output path always and writes it only for a
\* non-empty result; the questions found in an existing review file are
\* answered and appended to that same file.
Review(r) ==
    /\ pc = "review"
    /\ pc' = "refine"
    /\ calls' = Called("review")
    /\ gemini_dry_run => r = ""
    /\ reviewFile' = (reviewFile \/ r # "")
    /\ UNCHANGED <<docExists, reqFile, patchFile, styleFile, sessionDir,
                   progress, runLog, commits, selfVars, style_guide_path,
                   req_path, patch_path, applied, i, loop_success, status,
                   runs, outcome, seen, answer, startDisk>>
    /\ UNCHANGED auxVars

\* the judgements CodexClient.refine can hand to the loop for review file
\* state rf: FAILED when the review file does not exist
refine_status(rf) == IF ~rf THEN {"FAILED"} ELSE Statuses

Refine(st) ==
    /\ pc = "refine"
    /\ pc' = "judge"
    /\ calls' = Called("refine")
    /\ st \in refine_status(reviewFile)
    /\ status' = st
    /\ seen' = seen \cup {st}
    /\ UNCHANGED <<fsVars, selfVars, style_guide_path, req_path, patch_path,
                   applied, i, loop_success, runs, outcome, answer, startDisk>>
    /\ UNCHANGED auxVars

\* Breaks with the break of the SUITABLE branch missing
Breaks_SuitableContinues(st) == st \in {"FAILED"}

\* Breaks with the break of the FAILED branch missing
Breaks_FailedContinues(st) == st \in {"SUITABLE"}

\* the judgements whose branch ends in break
Breaks(st) == st \in {"SUITABLE", "FAILED"}

\* what the branch of judgement st records in the state mapping
judged_state(d, st) ==
    CASE st = "SUITABLE" ->
           DictSet(DictSet(d, "last_failed_phase", ""), "phase3_status", "SUITABLE")
      [] st = "FAILED" ->
           DictSet(DictSet(d, "last_failed_phase", "phase3"), "phase3_status", "FAILED")
      [] OTHER -> d

\* the dispatch on the judgement of round i
Judge ==
    /\ pc = "judge"
    /\ loop_success' = (loop_success \/ status = "SUITABLE")
    /\ state' = judged_state(state, status)
    /\ IF status \in {"SUITABLE", "FAILED"}
       THEN /\ progress' = Saved(state')
            /\ runLog' = IF status = "SUITABLE"
                         THEN Logged("phase3: status=SUITABLE")
                         ELSE Logged("phase3: status=FAILED")
       ELSE UNCHANGED <<progress, runLog>>
    /\ IF Breaks(status) THEN pc' = "phase4" /\ i' = i
       ELSE IF status = "HOLD" THEN pc' = "confirm" /\ i' = i
       ELSE NextRound(i + 1)
    /\ UNCHANGED <<docExists, reqFile, patchFile, reviewFile, styleFile,
                   sessionDir, commits, max_rounds, dry_run, gemini_dry_run,
                   entry_point, existing_project, resume, session_id,
                   style_guide_path, req_path, patch_path, applied, status,
                   runs, calls, outcome, seen, answer, startDisk>>
    /\ UNCHANGED auxVars

\* declined with the answer ignored
declined_Ignored(proceed) == FALSE

\* HOLD is declined when Confirm.ask returns false
declined(proceed) == ~proceed

\* HOLD: Confirm.ask; proceed is the answer
Confirm(proceed) ==
    /\ pc = "confirm"
    /\ calls' = Called("confirm")
    /\ answer' = IF proceed THEN "yes" ELSE "no"
    /\ IF declined(proceed)
       THEN Return("hold_declined") /\ i' = i
       ELSE NextRound(i + 1) /\ UNCHANGED outcome
    /\ UNCHANGED <<fsVars, selfVars, style_guide_path, req_path, patch_path,
                   applied, loop_success, status, runs, seen, startDisk>>
    /\ UNCHANGED auxVars

\* GitOps.commit: nothing in a dry run; otherwise git add + git commit,
\* which succeeds (ok) or fails with a non-zero exit, which commit catches
\* (the git calls themselves are followed in SpecCommit)
commit(ok) == IF ~dry_run /\ ok THEN commits + 1 ELSE commits

\* skip_commit with the existing-project flag ignored
skip_commit_Never == FALSE

\* completion of an existing project applies without committing
skip_commit == existing_project

\* 4: completion or failure
Phase4(ok) ==
    /\ pc = "phase4"
    /\ IF loop_success
       THEN /\ IF skip_commit
               THEN ok /\ UNCHANGED <<commits, calls>>
               ELSE /\ calls' = Called("commit")
                    /\ dry_run => ok
                    /\ commits' = commit(ok)
            /\ state' = DictSet(DictSet(state, "last_failed_phase", ""),
                                "phase4_status", "COMPLETE")
            /\ progress' = Saved(state')
            /\ runLog' = Logged("phase4: status=COMPLETE")
            /\ Return("complete")
       ELSE /\ ok
            /\ state' = DictSet(state, "phase4_status", "FAILED")
            /\ progress' = Saved(state')
            /\ runLog' = Logged("phase4: status=FAILED")
            /\ Return("failed")
            /\ UNCHANGED <<commits, calls>>
    /\ UNCHANGED <<docExists, reqFile, patchFile, reviewFile, styleFile,
                   sessionDir, max_rounds, dry_run, gemini_dry_run,
                   entry_point, existing_project, resume, session_id,
                   style_guide_path, req_path, patch_path, applied, i,
                   loop_success, status, runs, seen, answer, startDisk>>
    /\ UNCHANGED auxVars

\* ------------------------------------------------------------------- Next
Next ==
    \/ \E mr \in 0..MaxRounds, dr \in BOOLEAN, gdr \in BOOLEAN,
          ep \in {None, EntryPoint}, ex \in BOOLEAN,
          res \in {None} \cup SessionIds, sid \in SessionIds :
            Start(mr, dr, gdr, ep, ex, res, sid)
    \/ RunBegin
    \/ \E r \in {"", StylePath} : StyleAnalysis(r)
    \/ \E parsed \in BOOLEAN, r \in {"", "text"} : Planning(parsed, r)
    \/ PlanningGuard
    \/ \E ok \in BOOLEAN : Implementation(ok)
    \/ ImplementationGuard
    \/ \E r \in {"", "text"} : Review(r)
    \/ \E st \in Statuses : Refine(st)
    \/ Judge
    \/ \E proceed \in BOOLEAN : Confirm(proceed)
    \/ \E ok \in BOOLEAN : Phase4(ok)

Spec == Init /\ [][Next]_vars

\* ============================================================== properties
RunEnded == runs > 0 /\ pc = "idle"

\* the value the progress record of the running session holds for key k
Persisted(k) == DictGet(load_state(progress[session_id]), k)

\* the run got past phase 2 and entered the review loop
LoopEntered == runs > 0 /\ applied /\ pc # "guard2"

\* C1: for every max_rounds N, a run whose refine never returns SUITABLE or
\* FAILED and whose HOLDs are all accepted performs exactly N rounds (N calls
\* of review, N of refine, never an (N+1)-th) and ends in the failure outcome:
\* phase4_status=FAILED is persisted and commit is never invoked.
C1_ExactlyMaxRounds ==
    /\ calls["review"] <= max_rounds
    /\ calls["refine"] <= max_rounds
    /\ (/\ RunEnded /\ LoopEntered
        /\ seen \cap {"SUITABLE", "FAILED"} = {}
        /\ answer # "no")
       => /\ calls["review"] = max_rounds
          /\ calls["refine"] = max_rounds
          /\ outcome = "failed"
          /\ Persisted("phase4_status") = "FAILED"
          /\ calls["commit"] = 0

C1_Witness ==
    /\ RunEnded /\ LoopEntered
    /\ max_rounds >= 2
    /\ seen = {"CHANGES_NEEDED", "HOLD"}
    /\ answer = "yes"
    /\ calls["refine"] = max_rounds
    /\ outcome = "failed"

C3_FailedIsTerminal ==
    (runs > 0 /\ "FAILED" \in seen)
    => /\ status = "FAILED"
       /\ calls["review"] = i
       /\ calls["refine"] = i
       /\ calls["commit"] = 0
       /\ pc \in {"judge", "phase4", "idle"}
       /\ pc = "idle" => /\ outcome = "failed"
                         /\ Persisted("phase3_status") = "FAILED"
                         /\ Persisted("last_failed_phase") = "phase3"
                         /\ Persisted("phase4_status") = "FAILED"

C3_Witness ==
    /\ RunEnded
    /\ seen = {"FAILED"}
    /\ i = 1 /\ max_rounds >= 2
    /\ calls["review"] = 1 /\ calls["refine"] = 1
    /\ Persisted("last_failed_phase") = "phase3"

\* one step of the HOLD handling: a HOLD judgement on round i asks for confirmation; a declined
\* confirmation ends the run there (no further review or refine, no
\* completion phase, no commit: nothing more is written), an accepted one
\* continues with round i+1 when i < max_rounds.
C4_HoldStep ==
    /\ (pc = "judge" /\ status = "HOLD") => pc' = "confirm"
    /\ pc = "confirm" =>
         /\ calls'["confirm"] = calls["confirm"] + 1
         /\ answer' = "no" =>
              /\ pc' = "idle" /\ outcome' = "hold_declined"
              /\ calls'["commit"] = 0
              /\ calls'["review"] = i /\ calls'["refine"] = i
              /\ UNCHANGED fsVars
         /\ (answer' = "yes" /\ i < max_rounds) =>
              /\ pc' = "review" /\ i' = i + 1
    /\ (pc = "idle" /\ outcome = "hold_declined") =>
         (pc' = "idle" \/ calls' = ZeroCalls)

\* C4: every step of the run treats a HOLD judgement as above: confirmation
\* is requested, a declined one aborts the whole run, an accepted one goes on
\* to round i+1.
C4_HoldConfirmation == [][C4_HoldStep]_vars

C4_Witness ==
    /\ RunEnded
    /\ outcome = "hold_declined"
    /\ answer = "no"
    /\ i < max_rounds
    /\ Disk # startDisk

\* C5: within one run commit is invoked at most once, and it is invoked if and
\* only if the review loop ended with SUITABLE and the target is not flagged
\* as an existing project; never after a FAILED judgement, a declined HOLD,
\* round exhaustion or a phase 1 / phase 2 abort.
C5_CommitIffSuitable ==
    /\ calls["commit"] <= 1
    /\ calls["commit"] = 1 => ("SUITABLE" \in seen /\ ~existing_project)
    /\ RunEnded =>
         (calls["commit"] = 1 <=> ("SUITABLE" \in seen /\ ~existing_project))
    /\ (RunEnded /\ outcome # "complete") => calls["commit"] = 0

C5_Witness ==
    /\ RunEnded
    /\ calls["commit"] = 1
    /\ commits = startDisk.commits + 1

\* the run was started with a resume id that had no progress record
ResumeOfUnknown ==
    runs > 0 /\ Truthy(resume) /\ ~startDisk.progress[session_id].exists

\* C6: a run with an explicit resume id that has no progress record fails
\* fast: no collaborator is invoked and nothing is created for that id (no
\* progress record, no run log, no session directory).
C6_ResumeUnknownFailsFast ==
    ResumeOfUnknown
    => /\ calls = ZeroCalls
       /\ pc \in {"start", "idle"}
       /\ pc = "idle" => outcome = "resume_not_found"
       /\ progress[session_id] = startDisk.progress[session_id]
       /\ runLog[session_id] = startDisk.log[session_id]
       /\ sessionDir[session_id] = startDisk.dir[session_id]

C6_Witness ==
    /\ RunEnded /\ ResumeOfUnknown
    /\ outcome = "resume_not_found"
    /\ ~sessionDir[session_id]

\* C7: when the document does not exist the run aborts before planning: no
\* collaborator is invoked and nothing is created or modified under the
\* artifacts directory.
C7_MissingDocWritesNothing ==
    (RunEnded /\ outcome = "doc_not_found")
    => /\ calls = ZeroCalls
       /\ Disk = startDisk

\* the run has gone through the planning step and its guard
PastPlanning ==
    /\ runs > 0
    /\ pc \notin {"start", "style", "plan", "guard1"}
    /\ outcome \notin {"resume_not_found", "doc_not_found"}

\* C8: when, after the planning step, the requirements path is empty, the
\* file is missing or the file has size zero, the run aborts with
\* last_failed_phase=phase1 persisted and implement, review, refine and commit
\* are never invoked.
C8_PlanningGuardAborts ==
    (PastPlanning /\ (~Truthy(req_path) \/ reqFile = "missing" \/ reqFile = "empty"))
    => /\ pc = "idle" /\ outcome = "phase1_failed"
       /\ Persisted("last_failed_phase") = "phase1"
       /\ calls["implement"] = 0 /\ calls["review"] = 0
       /\ calls["refine"] = 0 /\ calls["commit"] = 0

C8_Witness ==
    /\ RunEnded
    /\ outcome = "phase1_failed"
    /\ req_path = ReqPath /\ reqFile = "empty"

\* C9: when implement reports applied=false the run aborts at phase 2:
\* last_failed_phase=phase2 and phase2_applied=false are persisted, and review,
\* refine and commit are never invoked in that run.
C9_ImplementFailureAborts ==
    (runs > 0 /\ calls["implement"] = 1 /\ ~applied /\ pc # "guard2")
    => /\ pc = "idle" /\ outcome = "phase2_failed"
       /\ Persisted("last_failed_phase") = "phase2"
       /\ Persisted("phase2_applied") = "false"
       /\ calls["review"] = 0 /\ calls["refine"] = 0 /\ calls["commit"] = 0

C9_Witness ==
    /\ RunEnded
    /\ outcome = "phase2_failed"
    /\ calls["implement"] = 1

\* the phase names that could stand for the exit taken
FailedPhaseOf(how) ==
    CASE how = "phase1_failed" -> {"phase1"}
      [] how = "phase2_failed" -> {"phase2"}
      [] how \in {"failed", "hold_declined"} -> {"phase3", "phase4"}
      [] OTHER -> {"phase1", "phase2", "phase3", "phase4", "resume"}

\* C10: every exit of the run other than successful completion (resume id not
\* found, document not found, planning failure, implementation failure,
\* FAILED judgement, declined HOLD, rounds exhausted) leaves last_failed_phase,
\* naming the failed phase, in the persisted session state.
C10_EveryAbortRecordsPhase ==
    (RunEnded /\ outcome # "complete")
    => /\ progress[session_id].exists
       /\ Persisted("last_failed_phase") \in FailedPhaseOf(outcome)

\* the value the progress record held for key k when the run started
Recorded(k) == DictGet(load_state(startDisk.progress[session_id]), k)

\* the run resumes a session an earlier run left a progress record for
Resumed == runs > 0 /\ Truthy(resume) /\ startDisk.progress[session_id].exists

\* C11: a resumed run executes no phase an earlier run of the session
\* completed and recorded: plan is not invoked once a requirements artifact is
\* recorded, implement is not invoked once the patch is recorded as applied,
\* and review, refine and commit are not invoked once phase3_status=SUITABLE
\* and phase4_status=COMPLETE are recorded.
C11_ResumeSkipsRecordedPhases ==
    Resumed
    => /\ (Truthy(Recorded("requirements_path")) /\ startDisk.req = "nonempty")
            => calls["plan"] = 0
       /\ (Truthy(Recorded("patch_path")) /\ Recorded("phase2_applied") = "true")
            => calls["implement"] = 0
       /\ (Recorded("phase3_status") = "SUITABLE"
             /\ Recorded("phase4_status") = "COMPLETE")
            => /\ calls["review"] = 0
               /\ calls["refine"] = 0
               /\ calls["commit"] = 0

\* =============================================== the progress record as text
\* progress.md byte for byte: a text is a sequence of characters.  Load and
\* save are followed through a round trip: a state mapping the orchestrator
\* holds is saved, loaded and saved again.
MaxValLen == 2      \* longest value of the state mapping explored

Chars == {"a", " ", ":", "\n"}
StoreKeys == {<<"k">>, <<"p">>}

\* the characters str.strip() and str.splitlines() treat as blank / line end
IsSpace(c) == c \in {" ", "\n"}

RECURSIVE lstrip(_)
lstrip(s) == IF s = <<>> \/ ~IsSpace(Head(s)) THEN s ELSE lstrip(Tail(s))

RECURSIVE rstrip(_)
rstrip(s) ==
    IF s = <<>> \/ ~IsSpace(s[Len(s)]) THEN s
    ELSE rstrip(SubSeq(s, 1, Len(s) - 1))

\* str.strip()
py_strip(s) == rstrip(lstrip(s))

\* str.splitlines(): the lines of a text, without a last empty one
RECURSIVE splitlines_from(_, _, _)
splitlines_from(s, cur, acc) ==
    IF s = <<>> THEN (IF cur = <<>> THEN acc ELSE Append(acc, cur))
    ELSE IF Head(s) = "\n" THEN splitlines_from(Tail(s), <<>>, Append(acc, cur))
    ELSE splitlines_from(Tail(s), Append(cur, Head(s)), acc)

splitlines(s) == splitlines_from(s, <<>>, <<>>)

HasColon(line) == \E n \in 1..Len(line) : line[n] = ":"

\* line.split(":", 1): the text before and after the first colon
split_colon(line) ==
    LET n == CHOOSE m \in 1..Len(line) :
                 line[m] = ":" /\ \A q \in 1..(m - 1) : line[q] # ":"
    IN <<SubSeq(line, 1, n - 1), SubSeq(line, n + 1, Len(line))>>

\* _load_state on the text of progress.md
RECURSIVE load_lines(_, _)
load_lines(lines, acc) ==
    IF lines = <<>> THEN acc
    ELSE IF ~HasColon(Head(lines)) THEN load_lines(Tail(lines), acc)
    ELSE LET kv == split_colon(Head(lines)) IN
         load_lines(Tail(lines), DictSet(acc, py_strip(kv[1]), py_strip(kv[2])))

load_text(content) == load_lines(splitlines(content), <<>>)

\* "\n".join(f"{k}: {v}" ...) + "\n": the text _save_state writes
RECURSIVE join_lines(_)
join_lines(d) ==
    IF d = <<>> THEN <<>>
    ELSE LET line == d[1][1] \o <<":", " ">> \o d[1][2] IN
         IF Len(d) = 1 THEN line ELSE line \o <<"\n">> \o join_lines(Tail(d))

save_text(d) == join_lines(d) \o <<"\n">>

\* the texts of at most n characters
RECURSIVE TextsUpTo(_)
TextsUpTo(n) ==
    IF n = 0 THEN {<<>>}
    ELSE LET shorter == TextsUpTo(n - 1) IN
         shorter \cup {Append(t, c) : t \in shorter, c \in Chars}

\* the state mappings explored: at most one entry per key
StoreStates ==
    LET vals == TextsUpTo(MaxValLen) IN
    {<<>>} \cup {<< <<k, v>> >> : k \in StoreKeys, v \in vals}
           \cup {<< << <<"k">>, v >>, << <<"p">>, w >> >> : v \in vals, w \in vals}

InitStore ==
    /\ OrchQuiet
    /\ gate = GateIdle /\ cleaner = CleanerIdle /\ codex = CodexIdle
    /\ planner = PlannerIdle /\ committer = CommitterIdle /\ asker = AskerIdle /\ timer = TimerIdle
    /\ \E d \in StoreStates :
         store = [step |-> "state", orig |-> d, state |-> d,
                  file |-> <<>>, file2 |-> <<>>]

\* _save_state of the mapping held
StoreSave ==
    /\ store.step = "state"
    /\ store' = [store EXCEPT !.step = "saved", !.file = save_text(store.state)]
    /\ UNCHANGED storeRest

\* _load_state of the file just written (a resumed Orchestrator.__init__)
StoreLoad ==
    /\ store.step = "saved"
    /\ store' = [store EXCEPT !.step = "loaded", !.state = load_text(store.file)]
    /\ UNCHANGED storeRest

\* _save_state again, the mapping unmodified
StoreResave ==
    /\ store.step = "loaded"
    /\ store' = [store EXCEPT !.step = "resaved", !.file2 = save_text(store.state)]
    /\ UNCHANGED storeRest

NextStore == StoreSave \/ StoreLoad \/ StoreResave

SpecStore == InitStore /\ [][NextStore]_vars

\* C12: for every progress record, loading it with _load_state and saving it
\* again with _save_state without modification yields a byte-identical file.
C12_RoundTripAnyRecord ==
    store.step = "resaved" => store.file2 = store.file

\* ============================================================ the patch gate
\* GitOps.validate_patch and GitOps.apply_patch, called on a patch file.  The
\* working tree is a version number: a git apply that succeeds makes the next.
MaxGateCalls == 2   \* calls of the gate followed one after another

PatchKinds == {"missing", "empty", "blank", "suspicious", "diff"}
CheckCodes == {"zero", "nonzero", "absent"}     \* git apply --check; git not found
ApplyOutcomes == {"applied", "rejected", "error"}

\* the early returns of validate_patch with only the missing file caught
rejects_early_MissingOnly(patch) == patch = "missing"

\* the early returns of validate_patch with the format check rejecting too
rejects_early_Suspicious(patch) ==
    patch \in {"missing", "empty", "blank", "suspicious"}

\* validate_patch lines 67-76: no file, or content.strip() empty
rejects_early(patch) == patch \in {"missing", "empty", "blank"}

\* the check's verdict with the return code not looked at
check_passes_Always(rc) == TRUE

\* validate_patch lines 80-94: return code 0 and no FileNotFoundError
check_passes(rc) == rc = "zero"

InitGate ==
    /\ OrchQuiet
    /\ store = StoreIdle /\ gate = GateIdle /\ cleaner = CleanerIdle
    /\ codex = CodexIdle /\ planner = PlannerIdle /\ committer = CommitterIdle /\ asker = AskerIdle /\ timer = TimerIdle

GateCall(op, patch, dry) ==
    /\ gate.pc \in {"idle", "done"}
    /\ gate.calls < MaxGateCalls
    /\ gate' = [gate EXCEPT !.pc = "validate", !.op = op, !.patch = patch,
                            !.dry_run = dry, !.before = gate.tree,
                            !.checks = 0, !.applies = 0, !.rc = "none",
                            !.result = "none", !.calls = gate.calls + 1]
    /\ UNCHANGED gateRest

\* validate_patch up to the basic format check
ValidateFile ==
    /\ gate.pc = "validate"
    /\ gate' = IF rejects_early(gate.patch)
               THEN [gate EXCEPT !.pc = "done", !.result = "false"]
               ELSE [gate EXCEPT !.pc = "check"]
    /\ UNCHANGED gateRest

\* validate_patch's git apply --check, and apply_patch's test of its result
GitCheck(rc) ==
    /\ gate.pc = "check"
    /\ gate' = IF ~check_passes(rc)
               THEN [gate EXCEPT !.pc = "done", !.result = "false", !.rc = rc,
                                 !.checks = gate.checks + 1]
               ELSE IF gate.op = "validate_patch"
               THEN [gate EXCEPT !.pc = "done", !.result = "true", !.rc = rc,
                                 !.checks = gate.checks + 1]
               ELSE [gate EXCEPT !.pc = "apply", !.rc = rc,
                                 !.checks = gate.checks + 1]
    /\ UNCHANGED gateRest

\* the dry-run return of apply_patch never taken
skips_apply_Never(dry) == FALSE

\* apply_patch lines 107-109: a dry run returns before git apply
skips_apply(dry) == dry

\* apply_patch after validation: dry run, or git apply
GitApply(out) ==
    /\ gate.pc = "apply"
    /\ gate' = IF skips_apply(gate.dry_run)
               THEN [gate EXCEPT !.pc = "done", !.result = "true"]
               ELSE [gate EXCEPT !.pc = "done",
                                 !.applies = gate.applies + 1,
                                 !.tree = IF out = "applied" THEN gate.tree + 1
                                                             ELSE gate.tree,
                                 !.result = IF out = "applied" THEN "true"
                                                               ELSE "false"]
    /\ UNCHANGED gateRest

NextGate ==
    \/ \E op \in {"validate_patch", "apply_patch"}, patch \in PatchKinds,
          dry \in BOOLEAN : GateCall(op, patch, dry)
    \/ ValidateFile
    \/ \E rc \in CheckCodes : GitCheck(rc)
    \/ \E out \in ApplyOutcomes : GitApply(out)

SpecGate == InitGate /\ [][NextGate]_vars

\* C14: for a patch file that is missing, empty or whitespace-only,
\* validate_patch returns false without running git apply --check, and
\* apply_patch returns false without invoking git apply: the working tree is
\* not mutated.
C14_UnreadablePatchRejected ==
    (gate.pc = "done" /\ gate.patch \in {"missing", "empty", "blank"})
    => /\ gate.result = "false"
       /\ gate.checks = 0
       /\ gate.applies = 0
       /\ gate.tree = gate.before

C14_Witness ==
    /\ gate.pc = "done"
    /\ gate.op = "apply_patch"
    /\ gate.patch = "blank"
    /\ ~gate.dry_run
    /\ gate.result = "false"
    /\ gate.calls = 2
    /\ gate.tree = 1

\* C15: whenever apply_patch returns false the working tree is unchanged: a
\* failing check (non-zero result, or git unavailable) makes apply_patch return
\* false before the mutating git apply is invoked, and a git apply that fails
\* changes nothing.
C15_FailedApplyLeavesTree ==
    /\ (gate.pc = "done" /\ gate.op = "apply_patch" /\ gate.result = "false")
       => gate.tree = gate.before
    /\ (gate.op = "apply_patch" /\ gate.rc \in {"nonzero", "absent"})
       => /\ gate.pc = "done"
          /\ gate.result = "false"
          /\ gate.applies = 0

C15_Witness ==
    /\ gate.pc = "done"
    /\ gate.op = "apply_patch"
    /\ gate.patch = "diff"
    /\ ~gate.dry_run
    /\ gate.rc = "nonzero"
    /\ gate.result = "false"
    /\ gate.applies = 0
    /\ gate.tree = 1
    /\ gate.before = 1

\* ===================================================== CodexClient._clean_code
\* A generated text is a sequence of pieces: single characters and a few
\* longer pieces that the code's patterns tell apart.
\*   "F"  ```                      "x"  a word character      "+"  another one
\*   "J"  import org.springframework.web.bind.annotation.RestController;
\*   "R"  @RestController          "C"  the expected class name (User)
\*   "B"  \bclass\sUser\b          "K"  the start of a line comment, // New File
\*   "D"  public class User        (the declaration of the expected class)
Pieces == {"F", "\n", " ", "x", "+", "J", "R", "C", "B", "K", "D"}

\* len() of a piece, and of a text
CharLen(c) ==
    CASE c = "F" -> 3
      [] c = "J" -> 62
      [] c = "R" -> 15
      [] c = "C" -> 4
      [] c = "B" -> 16
      [] c = "K" -> 11
      [] c = "D" -> 17
      [] OTHER -> 1

RECURSIVE TextLen(_)
TextLen(t) == IF t = <<>> THEN 0 ELSE CharLen(Head(t)) + TextLen(Tail(t))

Contains(t, c) == \E n \in 1..Len(t) : t[n] = c

\* \w
IsWord(c) == c \in {"x", "C"}

\* (?:\w+)? from position q: the position after the longest run of word pieces
RECURSIVE SkipWord(_, _)
SkipWord(t, q) == IF q <= Len(t) /\ IsWord(t[q]) THEN SkipWord(t, q + 1) ELSE q

\* the first fence at or after position q, 0 when there is none
FirstFence(t, q) ==
    IF \E r \in q..Len(t) : t[r] = "F"
    THEN CHOOSE r \in q..Len(t) : t[r] = "F" /\ \A u \in q..(r - 1) : t[u] # "F"
    ELSE 0

\* re.findall(r"```(?:\w+)?\n(.*?)```", text, re.DOTALL): the captured groups
\* of the non-overlapping matches, scanning from position p
RECURSIVE findall_from(_, _, _)
findall_from(t, p, acc) ==
    IF p > Len(t) THEN acc
    ELSE IF t[p] # "F" THEN findall_from(t, p + 1, acc)
    ELSE LET q == SkipWord(t, p + 1) IN
         IF q > Len(t) \/ t[q] # "\n" THEN findall_from(t, p + 1, acc)
         ELSE LET r == FirstFence(t, q + 1) IN
              IF r = 0 THEN findall_from(t, p + 1, acc)
              ELSE findall_from(t, r + 1, Append(acc, SubSeq(t, q + 1, r - 1)))

findall_fenced(t) == findall_from(t, 1, <<>>)

\* max(matches, key=len): the first of the longest
RECURSIVE longest_of(_, _)
longest_of(ms, best) ==
    IF ms = <<>> THEN best
    ELSE longest_of(Tail(ms), IF TextLen(Head(ms)) > TextLen(best)
                                  THEN Head(ms) ELSE best)

max_by_len(ms) == longest_of(Tail(ms), Head(ms))

\* _has_expected_class with every text let through
has_expected_class_Any(t) == TRUE

\* _has_expected_class: the pattern of line 73 is written with doubled
\* backslashes in a raw string, so it matches the text \bclass\sUser\b only
has_expected_class(t) ==
    \/ Contains(t, "B")
    \/ Contains(t, "R") /\ (Contains(t, "C") \/ Contains(t, "B") \/ Contains(t, "D"))

\* re.sub(r"^\s*(?:(//[^\n]*\n)|(/\*.*?\*/\s*))+", "", text): leading blanks
\* followed by at least one line comment are removed, the comments with them
FirstNewline(t) ==
    IF Contains(t, "\n")
    THEN CHOOSE n \in 1..Len(t) : t[n] = "\n" /\ \A u \in 1..(n - 1) : t[u] # "\n"
    ELSE 0

RECURSIVE drop_comments(_)
drop_comments(t) ==
    IF t # <<>> /\ Head(t) = "K" /\ FirstNewline(t) # 0
    THEN drop_comments(SubSeq(t, FirstNewline(t) + 1, Len(t)))
    ELSE t

strip_leading_comments(t) ==
    LET u == lstrip(t)
        v == drop_comments(u) IN
    IF v = u THEN t ELSE v

\* re.search(java_start_pattern, text): position of the match, 0 for none
java_start(t) ==
    IF Contains(t, "J") \/ Contains(t, "D")
    THEN CHOOSE n \in 1..Len(t) :
            t[n] \in {"J", "D"} /\ \A u \in 1..(n - 1) : t[u] \notin {"J", "D"}
    ELSE 0

\* _clean_code(text, expected_class); expected is FALSE for expected_class=None
clean_code(text, expected) ==
    IF text = <<>> THEN <<>>
    ELSE LET matches == findall_fenced(text) IN
    IF matches # <<>>
    THEN LET cleaned == py_strip(max_by_len(matches)) IN
         IF expected /\ ~has_expected_class(cleaned) THEN <<>> ELSE cleaned
    ELSE LET stripped == strip_leading_comments(text)
             start == java_start(stripped) IN
    IF start # 0
    THEN LET cleaned == py_strip(SubSeq(stripped, start, Len(stripped))) IN
         IF expected /\ ~has_expected_class(cleaned) THEN <<>> ELSE cleaned
    ELSE IF expected THEN <<>> ELSE py_strip(text)

\* ------------------------------------------------ cleaning fenced responses
MaxCodeLen == 2     \* longest content of a fenced block explored

CodeChars == {"x", " ", "\n"}

RECURSIVE CodeTexts(_)
CodeTexts(n) ==
    IF n = 0 THEN {<<>>}
    ELSE LET shorter == CodeTexts(n - 1) IN
         shorter \cup {Append(t, c) : t \in shorter, c \in CodeChars}

\* what follows the opening fence on its line: nothing, a language tag, a tag
\* and a blank, a tag that is not all word characters (c++)
FenceTags == {<<>>, <<"x">>, <<"x", " ">>, <<"x", "+">>}

FencedBlocks == [tag : FenceTags, content : CodeTexts(MaxCodeLen)]

\* a fenced code block as the backend writes it
Fenced(b) == <<"F">> \o b.tag \o <<"\n">> \o b.content \o <<"F">>

\* a response of one block, or of two on successive lines
FencedResponses ==
    {<<b>> : b \in FencedBlocks} \cup {<<b, c>> : b \in FencedBlocks, c \in FencedBlocks}

Rendered(bs) ==
    IF Len(bs) = 1 THEN Fenced(bs[1])
    ELSE Fenced(bs[1]) \o <<"\n">> \o Fenced(bs[2])

InitClean ==
    /\ OrchQuiet /\ store = StoreIdle /\ gate = GateIdle /\ codex = CodexIdle
    /\ planner = PlannerIdle /\ committer = CommitterIdle /\ asker = AskerIdle /\ timer = TimerIdle
    /\ \E bs \in FencedResponses :
         cleaner = [step |-> "text", blocks |-> bs, text |-> Rendered(bs),
                    out |-> <<>>]

\* _clean_code(text) with no expected class
Clean ==
    /\ cleaner.step = "text"
    /\ cleaner' = [cleaner EXCEPT !.step = "cleaned",
                                  !.out = clean_code(cleaner.text, FALSE)]
    /\ UNCHANGED cleanerRest

NextClean == Clean

SpecClean == InitClean /\ [][NextClean]_vars

Longest(bs) ==
    {n \in 1..Len(bs) :
        \A m \in 1..Len(bs) : TextLen(bs[m].content) <= TextLen(bs[n].content)}

\* C20: cleaning a response that consists of a single fenced code block (no
\* expected marker) returns exactly the content between the fences, trimmed of
\* surrounding whitespace; of several fenced blocks the longest is returned.
C20_FencedContentReturned ==
    cleaner.step = "cleaned"
    => \E n \in Longest(cleaner.blocks) :
          cleaner.out = py_strip(cleaner.blocks[n].content)

\* ======================================== CodexClient: generation and writes
MaxBodyLen == 3     \* longest backend answer (in pieces) explored
max_retries == 3    \* _generate_code: API attempts before the fallback

BodyChars == {"J", "R", "C"}

RECURSIVE Bodies(_)
Bodies(n) ==
    IF n = 0 THEN {<<>>}
    ELSE LET shorter == Bodies(n - 1) IN
         shorter \cup {Append(t, c) : t \in shorter, c \in BodyChars}

\* what a backend prints: code as it is or in a fenced block, or prose
Responses ==
    LET bs == Bodies(MaxBodyLen) IN
    bs \cup {<<"F", "x", "\n">> \o b \o <<"\n", "F">> : b \in bs} \cup {<<"x">>}

\* _clean_code of the backends' answers, with the expected class and without
CleanedExpected == {clean_code(resp, TRUE) : resp \in Responses}
CleanedRelaxed == {clean_code(resp, FALSE) : resp \in Responses}
Cleaned(expected) == IF expected THEN CleanedExpected ELSE CleanedRelaxed

\* the exceptions a backend call raises
Errors == {"OSError", "KeyError", "ConnectionError", "Timeout"}
CliOutcomes == {"zero", "nonzero", "TimeoutExpired", "OSError"}
ApiOutcomes == {"200", "200_malformed", "status", "ConnectionError", "Timeout"}

\* the handler taking connection errors only
except_Exception_ConnectionOnly(e) == e = "ConnectionError"

\* "except Exception": every exception a backend call raises is one
except_Exception(e) == e \in Errors

\* "package " in text or "import " in text
has_package_or_import(t) == Contains(t, "J")

\* the class name occurs in the text
ContainsMarker(t) == Contains(t, "C") \/ Contains(t, "B") \/ Contains(t, "D")

\* the client constructed, and the target file it will work on
InitCodex ==
    /\ OrchQuiet /\ store = StoreIdle /\ gate = GateIdle /\ cleaner = CleanerIdle
    /\ planner = PlannerIdle /\ committer = CommitterIdle /\ asker = AskerIdle /\ timer = TimerIdle
    /\ \E dry \in BOOLEAN, cli \in BOOLEAN, tok \in BOOLEAN, ex \in BOOLEAN :
         codex = [CodexIdle EXCEPT
                    !.dry_run = dry,
                    !.has_codex_cli = (~dry /\ cli),
                    !.token = tok,
                    !.target_exists = ex,
                    !.target = IF ex THEN <<"J", "R", "C">> ELSE <<>>]

\* the API loop entered without its token test (line 213 left out)
ApiEntry_NoTokenCheck(c, failures) ==
    IF failures < max_retries THEN "api" ELSE "gemini"

\* the while loop of _generate_code at its test, after `failures` failures
ApiEntry(c, failures) ==
    IF failures < max_retries /\ c.token THEN "api" ELSE "gemini"

\* a _generate_code call of a client that is not in dry-run mode, up to its
\* first backend call
Generate(c, expected) ==
    LET g == [c EXCEPT !.expected = expected, !.failures = 0,
                       !.answered = FALSE, !.tried = <<>>, !.last = LastNone,
                       !.slept = FALSE, !.api_logs = 0] IN
    IF g.has_codex_cli THEN [g EXCEPT !.pc = "cli"]
    ELSE [g EXCEPT !.pc = ApiEntry(g, 0)]

\* the caller is back in its own code: _generate_code's locals are gone
Finished(c, result) ==
    [c EXCEPT !.pc = "done", !.result = result, !.expected = FALSE,
              !.pass = 0, !.failures = 0, !.answered = FALSE, !.old = <<>>,
              !.tried = <<>>, !.last = LastNone, !.slept = FALSE, !.api_logs = 0]

\* what _generate_code returned, as the caller sees it
Observed(c, text) ==
    [c EXCEPT !.ret = [expected |-> c.expected, empty |-> text = <<>>,
                       marked |-> ContainsMarker(text),
                       answered |-> c.answered, seen |-> TRUE,
                       last |-> c.last]]

\* implement's overwrite of the target (lines 330-342)
implement_write(c, new_content) ==
    Finished([c EXCEPT !.target = new_content, !.writer = "implement",
                       !.written_pass = c.pass, !.last_target = TRUE], "true")

\* implement giving up after the marker-checked generation (no relaxed pass)
implement_after_NoRetry(c, text) ==
    IF text = <<>> THEN Finished(c, "false") ELSE implement_write(c, text)

\* implement from the return of _generate_code on (lines 297-342)
implement_after(c, text) ==
    IF c.pass = 1 /\ text = <<>> THEN Generate([c EXCEPT !.pass = 2], FALSE)
    ELSE IF c.pass = 2 /\ (text = <<>> \/ ~has_package_or_import(text))
    THEN Finished(c, "false")
    ELSE IF 2 * TextLen(text) < TextLen(c.old) THEN Finished(c, "false")
    ELSE IF ~has_package_or_import(text) THEN Finished(c, "false")
    ELSE implement_write(c, text)

\* refine from the return of _generate_code on (lines 367-377)
refine_after(c, text) ==
    IF /\ text # <<>>
       /\ py_strip(text) # py_strip(c.old)
       /\ TextLen(text) > 50
       /\ has_package_or_import(text)
    THEN Finished([c EXCEPT !.target = text, !.writer = "refine",
                            !.written_pass = 1], "CHANGES_NEEDED")
    ELSE Finished(c, "CHANGES_NEEDED")

\* _generate_code returns the text to implement or refine, which goes on
Returned(c, text) ==
    IF c.op = "implement" THEN implement_after(Observed(c, text), text)
    ELSE refine_after(Observed(c, text), text)

\* the keep-waiting answer taken as "no" whatever it is
wait_more_Never(choice) == FALSE

\* `if choice == "yes"` after Prompt.ask (lines 177, 127)
wait_more(choice) == choice = "yes"

\* a backend tier is invoked and comes back with an outcome
Invoked(c, tier, out) ==
    [c EXCEPT !.tried = IF \E n \in 1..Len(c.tried) : c.tried[n] = tier
                        THEN c.tried ELSE Append(c.tried, tier),
              !.last = [tier |-> tier, out |-> out]]

\* the keep-waiting prompt of a tier is answered
Answered(c, tier, choice) == [c EXCEPT !.last = [tier |-> tier, out |-> choice]]

\* _call_codex_cli returned nothing, with the API tier passed over
CliFailed_ToFallback(c) == [c EXCEPT !.pc = "gemini"]

\* _call_codex_cli returned nothing: on to the API loop
CliFailed(c) == [c EXCEPT !.pc = ApiEntry(c, 0)]

\* an API attempt ended with an error status: logged and counted (lines 233-235)
ApiFailed(c) ==
    [c EXCEPT !.failures = c.failures + 1, !.api_logs = c.api_logs + 1,
              !.slept = FALSE, !.pc = ApiEntry(c, c.failures + 1)]

\* an API attempt raised: logged, counted, and time.sleep(1) (lines 236-240)
ApiRaised(c) == [ApiFailed(c) EXCEPT !.slept = TRUE]

\* an exception out of _generate_code
Raised(c) == [c EXCEPT !.pc = "raised"]

\* implement without its dry-run return
returns_dry_Never(c) == FALSE

\* `if self.dry_run: return str(output_path), True` (line 262)
returns_dry(c) == c.dry_run

\* CodexClient.implement up to its first backend call
Implement ==
    /\ codex.pc \in {"idle", "done"}
    /\ codex' =
         LET c == [codex EXCEPT !.op = "implement", !.result = "none",
                                !.pass = 1, !.written_pass = 0, !.ret = RetNone]
             content == IF c.target_exists THEN c.target ELSE <<"K", "\n">> IN
         IF returns_dry(c) THEN Finished(c, "true")
         ELSE Generate([c EXCEPT
                          !.target_exists = TRUE,
                          !.target = content,
                          !.writer = IF c.target_exists THEN c.writer
                                     ELSE "implement_stub",
                          !.old = content], TRUE)
    /\ UNCHANGED codexRest

\* CodexClient.refine up to its first backend call
Refine_(review) ==
    /\ codex.pc \in {"idle", "done"}
    /\ codex' =
         LET c == [codex EXCEPT !.op = "refine", !.result = "none",
                                !.pass = 1, !.written_pass = 0, !.ret = RetNone] IN
         IF review = "missing" THEN Finished(c, "FAILED")
         ELSE IF review = "clean" THEN Finished(c, "SUITABLE")
         ELSE IF ~c.last_target THEN Finished(c, "CHANGES_NEEDED")
         ELSE IF c.dry_run
         THEN Returned([c EXCEPT !.old = c.target, !.expected = TRUE], <<>>)
         ELSE Generate([c EXCEPT !.old = c.target], TRUE)
    /\ UNCHANGED codexRest

\* _call_codex_cli: subprocess.run and what follows its outcome
CodexCli(out, text) ==
    /\ codex.pc = "cli"
    /\ codex' =
         LET c == Invoked(codex, "cli", out) IN
         CASE out = "zero" ->
                IF text # <<>> THEN Returned([c EXCEPT !.answered = TRUE], text)
                ELSE CliFailed([c EXCEPT !.answered = TRUE])
           [] out = "nonzero" -> CliFailed(c)
           [] out = "TimeoutExpired" -> [c EXCEPT !.pc = "cli_prompt"]
           [] OTHER -> IF except_Exception(out) THEN CliFailed(c)
                       ELSE Raised(c)
    /\ UNCHANGED codexRest

\* Prompt.ask "Continue waiting and retry?" after a codex timeout
CodexCliPrompt(choice) ==
    /\ codex.pc = "cli_prompt"
    /\ codex' = LET c == Answered(codex, "cli", choice) IN
                IF wait_more(choice) THEN [c EXCEPT !.pc = "cli"]
                ELSE CliFailed(c)
    /\ UNCHANGED codexRest

\* one round of the API loop: requests.post and what follows its outcome
CodexApi(out, text) ==
    /\ codex.pc = "api"
    /\ codex' =
         LET c == Invoked(codex, "api", out) IN
         CASE out = "200" ->
                Returned([c EXCEPT !.answered = TRUE,
                                   !.api_logs = IF text = <<>> /\ c.expected
                                                THEN c.api_logs + 1
                                                ELSE c.api_logs], text)
           [] out = "status" -> ApiFailed(c)
           [] out = "200_malformed" ->
                IF except_Exception("KeyError") THEN ApiRaised(c)
                ELSE Raised(c)
           [] OTHER -> IF except_Exception(out) THEN ApiRaised(c)
                       ELSE Raised(c)
    /\ UNCHANGED codexRest

\* _call_gemini_fallback: subprocess.run and what follows its outcome
GeminiFallback(out, text) ==
    /\ codex.pc = "gemini"
    /\ codex' =
         LET c == Invoked(codex, "gemini", out) IN
         CASE out = "zero" -> Returned([c EXCEPT !.answered = TRUE], text)
           [] out = "nonzero" -> Returned(c, <<>>)
           [] out = "TimeoutExpired" -> [c EXCEPT !.pc = "gemini_prompt"]
           [] OTHER -> IF except_Exception(out) THEN Returned(c, <<>>)
                       ELSE Raised(c)
    /\ UNCHANGED codexRest

\* Prompt.ask "Continue waiting?" after a gemini timeout
GeminiPrompt(choice) ==
    /\ codex.pc = "gemini_prompt"
    /\ codex' = LET c == Answered(codex, "gemini", choice) IN
                IF wait_more(choice) THEN [c EXCEPT !.pc = "gemini"]
                ELSE Returned(c, <<>>)
    /\ UNCHANGED codexRest

\* the cleaned answers an outcome comes with
Answers(out) ==
    IF out \in {"zero", "200"} THEN Cleaned(codex.expected) ELSE {<<>>}

NextCodex ==
    \/ Implement
    \/ \E review \in {"missing", "issues", "clean"} : Refine_(review)
    \/ \E out \in CliOutcomes : \E text \in Answers(out) : CodexCli(out, text)
    \/ \E choice \in {"yes", "no"} : CodexCliPrompt(choice)
    \/ \E out \in ApiOutcomes : \E text \in Answers(out) : CodexApi(out, text)
    \/ \E out \in CliOutcomes : \E text \in Answers(out) : GeminiFallback(out, text)
    \/ \E choice \in {"yes", "no"} : GeminiPrompt(choice)

SpecCodex == InitCodex /\ [][NextCodex]_vars

\* C13: every write of generated content to the target file goes through the
\* patch gate: the target is modified only by GitOps.apply_patch after its
\* validation; CodexClient.implement and CodexClient.refine never write it.
C13_TargetWrittenOnlyByGate ==
    codex.writer \notin {"implement", "refine"}

\* C16: whenever _generate_code is called with an expected marker and returns
\* a non-empty text, that text contains the marker; the marker-checked pass
\* never writes a text without the marker to the target.
C16_ReturnedTextHasMarker ==
    /\ (codex.ret.seen /\ codex.ret.expected /\ ~codex.ret.empty)
       => codex.ret.marked
    /\ codex.written_pass = 1 => ContainsMarker(codex.target)

C16_Witness ==
    /\ codex.pc = "done"
    /\ codex.op = "refine"
    /\ codex.ret.seen /\ codex.ret.expected /\ ~codex.ret.empty
    /\ codex.ret.marked
    /\ codex.writer = "refine"
    /\ codex.written_pass = 1
    /\ codex.target = <<"J", "C", "R">>

NextUnattended ==
    \/ Implement
    \/ \E review \in {"missing", "issues", "clean"} : Refine_(review)
    \/ \E out \in CliOutcomes : \E text \in Answers(out) : CodexCli(out, text)
    \/ \E out \in ApiOutcomes : \E text \in Answers(out) : CodexApi(out, text)
    \/ \E out \in CliOutcomes : \E text \in Answers(out) : GeminiFallback(out, text)

SpecUnattended == InitCodex /\ [][NextUnattended]_vars

AtPrompt == codex.pc \in {"cli_prompt", "gemini_prompt"}

\* C18: on an unattended run every interactive prompt (here the keep-waiting
\* decision after a backend timeout) resolves by itself to its default after a
\* bounded wait: the program is never left waiting at a prompt with no step
\* of its own to take.
C18_PromptsResolveUnattended ==
    AtPrompt => ENABLED NextUnattended

\* ================================================ GeminiClient.plan, DocParser
DocExts == {".pptx", ".pdf", ".xlsx", ".md", ".docx", ".txt"}
SupportedExts == {".pptx", ".pdf", ".xlsx", ".xls", ".md"}
DocKinds == {"text", "empty", "corrupt"}
GeminiOutcomes == {"text", "empty", "error", "timeout"}

\* DocParser.parse: the text handed to plan(), "" for none
parse(ext, doc) ==
    CASE ext = ".pptx" -> IF doc = "text" THEN "text" ELSE ""
      [] ext \in {".pdf", ".xlsx", ".xls"} -> "placeholder"
      [] ext = ".md" -> IF doc = "empty" THEN "" ELSE "text"
      [] OTHER -> "unsupported"

\* the document and the client plan() is called with
InitPlan ==
    /\ OrchQuiet /\ store = StoreIdle /\ gate = GateIdle /\ cleaner = CleanerIdle
    /\ codex = CodexIdle /\ timer = TimerIdle /\ asker = AskerIdle /\ committer = CommitterIdle
    /\ \E ext \in DocExts, doc \in DocKinds, dry \in BOOLEAN,
          req \in {"missing", "nonempty"} :
         planner = [PlannerIdle EXCEPT !.step = "start", !.ext = ext,
                                       !.doc = doc, !.dry_run = dry, !.req = req]

\* the phase 1 guard of Orchestrator.run on what plan() returned
guard_passes(result, req) == result # "" /\ req = "nonempty"

\* plan() returns
PlanReturn(p, result) ==
    [p EXCEPT !.step = "done", !.result = result,
              !.proceeds = guard_passes(result, p.req)]

\* plan() up to the call of the generation backend
PlanParse ==
    /\ planner.step = "start"
    /\ planner' =
         LET p == [planner EXCEPT !.parsed = parse(planner.ext, planner.doc)] IN
         IF p.parsed = "" THEN PlanReturn(p, "")
         ELSE IF p.dry_run THEN PlanReturn(p, ReqPath)
         ELSE [p EXCEPT !.step = "cli"]
    /\ UNCHANGED plannerRest

\* _call_gemini_cli on the parsed text, and the rest of plan()
PlanGenerate(out) ==
    /\ planner.step = "cli"
    /\ planner' =
         LET p == [planner EXCEPT !.asked = planner.asked + 1] IN
         IF out = "text" THEN PlanReturn([p EXCEPT !.req = "nonempty"], ReqPath)
         ELSE PlanReturn(p, "")
    /\ UNCHANGED plannerRest

NextPlan == PlanParse \/ \E out \in GeminiOutcomes : PlanGenerate(out)

SpecPlan == InitPlan /\ [][NextPlan]_vars

\* C19: for a document of an unsupported format plan() returns an empty
\* result, so the orchestrator aborts at the phase 1 guard and no generation
\* backend is asked to plan from it.
C19_UnsupportedFormatPlansNothing ==
    (planner.step = "done" /\ planner.ext \notin SupportedExts)
    => /\ planner.result = ""
       /\ planner.asked = 0
       /\ ~planner.proceeds

\* ------------------------------------------------ persistence of the state
\* C21: every mutation of the in-memory state is persisted before the next
\* collaborator call or return: whenever run() is about to call plan,
\* implement, review, refine or commit, or has returned, the progress record
\* on disk holds the in-memory state.
C21_StatePersistedAtCalls ==
    (runs > 0 /\ session_id # None)
    => load_state(progress[session_id]) = state

C21_Witness ==
    /\ pc = "phase4"
    /\ loop_success
    /\ ~existing_project
    /\ state # <<>>
    /\ DictGet(state, "phase3_status") = "SUITABLE"
    /\ DictGet(state, "phase2_applied") = "true"
    /\ load_state(progress[session_id]) = state

\* what the record a resumed run starts from says of a phase being complete:
\* phase 2 has the flag phase2_applied; of phase 1 the record only ever says
\* that it failed last
PhaseFlagged(phase) ==
    IF phase = "phase2" THEN Recorded("phase2_applied") = "true"
    ELSE Recorded("last_failed_phase") # "phase1"

\* the run got past style analysis / past implementation
PastStyle == runs > 0 /\ pc \notin {"start", "style"} /\ outcome = "none"
PastImplementation ==
    runs > 0 /\ pc \notin {"start", "style", "plan", "guard1", "implement"}
             /\ outcome = "none"

\* C22: a phase that can be skipped on resume (style analysis, planning,
\* implementation) is skipped only if its artifact path is recorded and a
\* flag marking the phase applied/complete is recorded and the artifact still
\* exists on disk.
C22_SkipNeedsPathFlagArtifact ==
    Resumed
    => /\ (PastStyle /\ entry_point # None /\ calls["analyze_style"] = 0)
          => /\ Truthy(Recorded("style_guide_path"))
             /\ startDisk.style
             /\ PhaseFlagged("phase1")
       /\ (PastPlanning /\ calls["plan"] = 0)
          => /\ Truthy(Recorded("requirements_path"))
             /\ startDisk.req # "missing"
             /\ PhaseFlagged("phase1")
       /\ (PastImplementation /\ calls["implement"] = 0)
          => /\ Truthy(Recorded("patch_path"))
             /\ startDisk.patch
             /\ PhaseFlagged("phase2")

\* the patch passed validate_patch: readable, not blank, check return code 0
GateValid ==
    /\ gate.patch \notin {"missing", "empty", "blank"}
    /\ gate.rc = "zero"

\* C23: apply_patch with dry_run=true runs validate_patch first, returns true
\* exactly when validation succeeded, and never invokes the mutating git
\* apply: the working tree is unchanged.
C23_DryRunValidatesOnly ==
    (gate.op = "apply_patch" /\ gate.dry_run)
    => /\ gate.applies = 0
       /\ gate.tree = gate.before
       /\ gate.pc = "apply" => GateValid
       /\ gate.pc = "done" => /\ (gate.result = "true") = GateValid
                              /\ gate.result \in {"true", "false"}

C23_Witness ==
    /\ gate.pc = "done"
    /\ gate.op = "apply_patch"
    /\ gate.dry_run
    /\ gate.patch = "diff"
    /\ gate.checks = 1
    /\ gate.rc = "zero"
    /\ gate.result = "true"
    /\ gate.applies = 0
    /\ gate.tree = 1
    /\ gate.before = 1

\* C24: a non-empty patch that lacks the "--- ", "+++ " or "@@" markers is not
\* rejected by the structural check: validate_patch goes on to git apply
\* --check and its result is that check's alone, while an empty patch fails at
\* once.
C24_SuspiciousPatchStillChecked ==
    /\ (gate.pc = "done" /\ gate.op = "validate_patch"
          /\ gate.patch = "suspicious")
       => /\ gate.checks = 1
          /\ (gate.result = "true") = (gate.rc = "zero")
          /\ (gate.result = "false") = (gate.rc \in {"nonzero", "absent"})
    /\ (gate.pc = "done" /\ gate.op = "validate_patch" /\ gate.patch = "empty")
       => gate.result = "false" /\ gate.checks = 0

C24_Witness ==
    /\ gate.pc = "done"
    /\ gate.op = "validate_patch"
    /\ gate.patch = "suspicious"
    /\ gate.checks = 1
    /\ gate.rc = "zero"
    /\ gate.result = "true"

\* the tiers of _generate_code in the order of its code (lines 196, 212, 243)
TierOrder == <<"cli", "api", "gemini">>

TierRank(tier) == CHOOSE n \in 1..Len(TierOrder) : TierOrder[n] = tier

\* the tier has been invoked in the current _generate_code call
InTried(tier) == \E n \in 1..Len(codex.tried) : codex.tried[n] = tier

\* a backend call of _generate_code is under way or about to start
InGenerate == codex.pc \in {"cli", "cli_prompt", "api", "gemini", "gemini_prompt"}

\* C25: within one _generate_code call the tiers are invoked in the order
\* primary CLI, hosted API, fallback CLI: the API is contacted only after the
\* primary CLI was unavailable or came back empty, the fallback CLI only after
\* the API tier was skipped (no token) or exhausted (max_retries failures),
\* and once a tier has returned non-empty output no tier is invoked any more.
C25_StrictTierOrder ==
    /\ \A m, n \in 1..Len(codex.tried) :
         m < n => TierRank(codex.tried[m]) < TierRank(codex.tried[n])
    /\ (codex.pc = "api" \/ InTried("api")) =>
         \/ ~codex.has_codex_cli
         \/ InTried("cli") /\ codex.pc \notin {"cli", "cli_prompt"}
    /\ (codex.pc \in {"gemini", "gemini_prompt"} \/ InTried("gemini")) =>
         \/ ~codex.token /\ ~InTried("api")
         \/ codex.token /\ codex.failures = max_retries
    /\ (codex.ret.seen /\ ~codex.ret.empty) => ~InGenerate

\* all three tiers were invoked in one call, in order
C25_Witness ==
    /\ codex.pc = "gemini_prompt"
    /\ codex.tried = TierOrder
    /\ codex.failures = max_retries

\* C26: a tier whose cleaned output fails the expected-marker validation is
\* passed over for the next tier, so _generate_code hands its caller an empty
\* result only when the last tier of the chain, the fallback CLI, was the one
\* that failed.
C26_EmptyOnlyAfterLastTier ==
    (codex.ret.seen /\ codex.ret.empty /\ codex.ret.last.tier # "none") =>
        codex.ret.last.tier = "gemini"

\* C27: within one _generate_code call the hosted API is attempted at most
\* max_retries (3) times, with a token the fallback CLI is reached after
\* exactly max_retries failed attempts, and every retry of the API request
\* is preceded by the backoff delay.
C27_ThreeAttemptsWithBackoff ==
    /\ codex.failures <= max_retries
    /\ codex.pc = "api" => codex.failures < max_retries
    /\ (codex.pc \in {"gemini", "gemini_prompt"} /\ codex.token) =>
         codex.failures = max_retries
    /\ (codex.pc = "api" /\ codex.failures > 0) => codex.slept

\* C28: when a hosted-API attempt has timed out, the pipeline is at the
\* keep-waiting prompt, as it is after a timeout of a CLI backend, instead of
\* having counted the timeout as a failed attempt and moved on.
C28_ApiTimeoutAsks ==
    (codex.last = [tier |-> "api", out |-> "Timeout"]) => AtPrompt

\* C29: without an API token the hosted-API tier of a _generate_code call
\* sends no request, raises nothing and logs no API failure, and the call
\* goes from the primary CLI tier (or from its start) straight to the
\* fallback CLI.
C29_NoTokenSkipsApi ==
    (InGenerate /\ ~codex.token) =>
        /\ ~InTried("api")
        /\ codex.failures = 0
        /\ codex.api_logs = 0
        /\ codex.pc \in {"cli", "cli_prompt", "gemini", "gemini_prompt"}
        /\ ~InTried("cli") =>
             codex.pc \in (IF codex.has_codex_cli THEN {"cli"}
                           ELSE {"gemini", "gemini_prompt"})

\* the primary CLI failed and, with no token, the fallback CLI is next
C29_Witness ==
    /\ codex.pc = "gemini"
    /\ ~codex.token
    /\ codex.tried = <<"cli">>

\* the fields of a _generate_code call that a re-invocation must leave alone
CallArgs(c) == <<c.op, c.pass, c.expected, c.old, c.failures, c.tried>>

\* C30: after a timeout of a CLI backend, the answer "yes" invokes the same
\* backend again with the call otherwise unchanged (same request, same expected
\* marker), however often it is given; the answer "no" makes the backend fail
\* with an empty result: after the primary CLI the call goes on with the next
\* tier, after the fallback CLI _generate_code returns empty.
C30_TimeoutDecision ==
    [][/\ (codex.pc = "cli_prompt" /\ codex'.last.out = "yes") =>
            codex'.pc = "cli" /\ CallArgs(codex') = CallArgs(codex)
       /\ (codex.pc = "cli_prompt" /\ codex'.last.out = "no") =>
            /\ codex'.pc = ApiEntry(codex, 0)
            /\ CallArgs(codex') = CallArgs(codex)
            /\ codex'.ret = codex.ret
       /\ (codex.pc = "gemini_prompt" /\ codex'.last.out = "yes") =>
            codex'.pc = "gemini" /\ CallArgs(codex') = CallArgs(codex)
       /\ (codex.pc = "gemini_prompt" /\ codex'.last.out # "yes") =>
            /\ codex'.ret.seen /\ codex'.ret.empty
            /\ codex'.ret.last = [tier |-> "gemini", out |-> "no"]
      ]_vars

\* the primary CLI is about to be invoked again after the answer "yes"
C30_Witness ==
    /\ codex.pc = "cli"
    /\ codex.last = [tier |-> "cli", out |-> "yes"]

\* =================================== CodexClient: the progress ticker of a call
MaxWaits == 2       \* "yes" answers to the keep-waiting prompt followed in a row

TimedBackends == {"cli", "api", "gemini"}

\* how the blocking call inside the try block can end
BlockingOutcomes(backend) ==
    IF backend = "api"
    THEN {"200", "status", "ConnectionError", "Timeout", "KeyboardInterrupt"}
    ELSE {"zero", "nonzero", "TimeoutExpired", "OSError", "KeyboardInterrupt"}

\* a try statement without its finally clause: the stop on plain returns only
finally_runs_ReturnOnly(exit) == exit = "return"

\* `finally: stop_event.set()` runs on every way out of the try statement
finally_runs(exit) == TRUE

\* one of the three timed backend calls is made
InitTimer ==
    /\ OrchQuiet /\ store = StoreIdle /\ gate = GateIdle /\ cleaner = CleanerIdle
    /\ codex = CodexIdle /\ planner = PlannerIdle /\ committer = CommitterIdle /\ asker = AskerIdle
    /\ \E backend \in TimedBackends :
         timer = [TimerIdle EXCEPT !.pc = "start", !.backend = backend]

\* the next timed call, once the last one has handed control back
TimedCall(backend) ==
    /\ timer.pc \in {"returned", "raised"}
    /\ timer' = [TimerIdle EXCEPT !.pc = "start", !.backend = backend]
    /\ UNCHANGED timerRest

\* _start_wait_timer: a new Event and a started daemon thread
StartWaitTimer ==
    /\ timer.pc = "start"
    /\ timer' = [timer EXCEPT !.pc = "blocking", !.started = timer.started + 1,
                              !.depth = timer.depth + 1]
    /\ UNCHANGED timerRest

\* the ticker thread prints while some Event of the call is not set
Tick ==
    /\ timer.started > timer.stopped
    /\ ~timer.ticked
    /\ timer' = [timer EXCEPT !.ticked = TRUE]
    /\ UNCHANGED timerRest

\* subprocess.run / requests.post comes back, in the try block
Blocking(out) ==
    /\ timer.pc = "blocking"
    /\ out \in BlockingOutcomes(timer.backend)
    /\ timer' =
         CASE out = "TimeoutExpired" -> [timer EXCEPT !.pc = "prompt"]
           [] out = "KeyboardInterrupt" ->
                [timer EXCEPT !.pc = "finally", !.exit = "raise"]
           [] out \in {"status", "ConnectionError", "Timeout"} ->
                [timer EXCEPT !.pc = "finally", !.exit = "retry"]
           [] OTHER -> [timer EXCEPT !.pc = "finally", !.exit = "return"]
    /\ UNCHANGED timerRest

\* Prompt.ask in the TimeoutExpired handler; "yes" calls the backend method
\* again from inside the handler, with the caller's ticker still running
TimerPrompt(choice) ==
    /\ timer.pc = "prompt"
    /\ choice = "yes" => timer.depth <= MaxWaits
    /\ timer' =
         CASE choice = "yes" -> [timer EXCEPT !.pc = "start"]
           [] choice = "no" -> [timer EXCEPT !.pc = "finally", !.exit = "return"]
           [] OTHER -> [timer EXCEPT !.pc = "finally", !.exit = "raise"]
    /\ UNCHANGED timerRest

\* the way out of one frame's try statement, and where control goes then:
\* to the frame that called it recursively, round the API loop, or to the caller
Finally ==
    /\ timer.pc = "finally"
    /\ timer' =
         LET t == [timer EXCEPT
                     !.stopped = IF finally_runs(timer.exit)
                                 THEN timer.stopped + 1 ELSE timer.stopped,
                     !.depth = timer.depth - 1] IN
         IF t.depth > 0 THEN t
         ELSE IF t.exit = "retry"
         THEN IF t.failures + 1 < max_retries
              THEN [t EXCEPT !.failures = t.failures + 1, !.pc = "start",
                             !.exit = "none"]
              ELSE [t EXCEPT !.failures = t.failures + 1, !.pc = "returned"]
         ELSE [t EXCEPT !.pc = IF t.exit = "raise" THEN "raised" ELSE "returned"]
    /\ UNCHANGED timerRest

NextTimer ==
    \/ \E backend \in TimedBackends : TimedCall(backend)
    \/ StartWaitTimer
    \/ Tick
    \/ \E out \in BlockingOutcomes(timer.backend) : Blocking(out)
    \/ \E choice \in {"yes", "no", "EOFError"} : TimerPrompt(choice)
    \/ Finally

SpecTimer == InitTimer /\ [][NextTimer]_vars

\* C31: every progress ticker started for a blocking backend call has had its
\* stop event set by the time the call hands control back (by return or by an
\* exception), and before the API loop starts its next attempt; the tickers
\* still running are exactly those of the frames still inside their try block.
C31_TickersStoppedOnReturn ==
    /\ timer.started - timer.stopped = timer.depth
    /\ timer.pc \in {"returned", "raised"} => timer.stopped = timer.started
    /\ (timer.pc = "start" /\ timer.backend = "api") =>
         timer.stopped = timer.started

\* a CLI call came back after a timeout answered "yes" and a second timeout
\* answered "no": two tickers were started and both are stopped
C31_Witness ==
    /\ timer.pc = "returned"
    /\ timer.backend = "cli"
    /\ timer.started = 2
    /\ timer.stopped = 2

\* an implement call of a client not in dry-run mode has returned
ImplementDone ==
    codex.pc = "done" /\ codex.op = "implement" /\ ~codex.dry_run

\* C32: in implement, an empty marker-checked generation is followed by exactly
\* one generation without the marker, so _generate_code runs at most twice per
\* call; output of the relaxed generation is written only if it contains
\* "package " or "import ", and otherwise implement returns applied = false.
C32_RelaxedRetryOnce ==
    /\ codex.pass \in 0..2
    /\ codex.pass = 2 =>
         /\ codex.op = "implement" /\ ~codex.expected
         /\ codex.ret.seen /\ codex.ret.expected /\ codex.ret.empty
    /\ codex.pass = 1 /\ InGenerate /\ codex.op = "implement" => codex.expected
    /\ ImplementDone =>
         /\ codex.ret.seen
         /\ codex.ret.expected => ~codex.ret.empty
         /\ ~codex.ret.expected =>
              IF codex.result = "true"
              THEN /\ codex.written_pass = 2
                   /\ has_package_or_import(codex.target)
              ELSE codex.result = "false" /\ codex.written_pass = 0

\* the relaxed generation's output was accepted and written
C32_Witness ==
    /\ ImplementDone
    /\ codex.written_pass = 2
    /\ codex.result = "true"

\* ========================= Orchestrator.run: a review round and the round after
MaxQuestions == 2   \* most question lines in one generated review

\* a line of review.md: "uq" the "User Questions" header, "sec" a line that
\* starts with "##", "dash" a line that starts with "-", "txt" any other line;
\* ex is the text after "Example:" on the line, ans the answer an appended
\* "- question: answer" line carries, issue whether a keyword refine looks for
\* is on the line
Line(kind, ex, ans, issue) == [kind |-> kind, ex |-> ex, ans |-> ans, issue |-> issue]

QuestionLines == {Line("dash", ex, "none", FALSE) : ex \in {"", "e"}}

QuestionLists == UNION {[1..n -> QuestionLines] : n \in 0..MaxQuestions}

\* the texts the review generation can come back with; <<>> is no output
Reviews ==
    {<<>>, <<Line("txt", "", "none", FALSE)>>}
    \cup {<<Line("dash", "", "none", TRUE), Line("uq", "", "none", FALSE)>> \o qs
            : qs \in QuestionLists}
    \cup {<<Line("uq", "", "none", FALSE)>> \o qs
            \o <<Line("sec", "", "none", FALSE), Line("dash", "", "none", FALSE)>>
            : qs \in QuestionLists}

RECURSIVE questions_from(_, _, _)
\* the loop of lines 143-151 from line n on, in_questions as given
questions_from(lines, n, in_questions) ==
    IF n > Len(lines) THEN <<>>
    ELSE IF lines[n].kind = "uq" THEN questions_from(lines, n + 1, TRUE)
    ELSE IF in_questions /\ lines[n].kind = "sec" THEN <<>>
    ELSE IF in_questions /\ lines[n].kind = "dash"
    THEN <<lines[n]>> \o questions_from(lines, n + 1, in_questions)
    ELSE questions_from(lines, n + 1, in_questions)

\* _prompt_with_timeout: what comes back for a question with this default
StdinEvents == {"timeout", "empty", "typed"}

\* _prompt_with_timeout returning what was read even when it is empty
prompt_with_timeout_Raw(event, default) == IF event = "typed" THEN "t" ELSE ""

prompt_with_timeout(event, default) == IF event = "typed" THEN "t" ELSE default

\* "\n\nUser Answers:\n" and one "- question: answer" line per pair
answer_lines(answers) ==
    <<Line("txt", "", "none", FALSE)>>
    \o [n \in 1..Len(answers) |-> Line("dash", "", answers[n], FALSE)]

\* CodexClient.refine's judgement of a review text (line 351)
judge(exists, lines) ==
    IF ~exists THEN "FAILED"
    ELSE IF \E n \in 1..Len(lines) : lines[n].issue THEN "CHANGES_NEEDED"
    ELSE "SUITABLE"

InitAsk ==
    /\ OrchQuiet /\ store = StoreIdle /\ gate = GateIdle /\ cleaner = CleanerIdle
    /\ codex = CodexIdle /\ planner = PlannerIdle /\ committer = CommitterIdle /\ timer = TimerIdle
    /\ asker = [AskerIdle EXCEPT !.pc = "review"]

\* lines 138-153: review() writes its non-empty result over review.md and
\* returns the path; an existing file is read and scanned for questions
AskReview(r) ==
    /\ asker.pc = "review"
    /\ asker' =
         LET a == [asker EXCEPT !.fresh = r # <<>>,
                                !.exists = asker.exists \/ r # <<>>,
                                !.file = IF r # <<>> THEN r ELSE asker.file,
                                !.answers = <<>>, !.last_event = "none",
                                !.refined = FALSE, !.consumed = <<>>,
                                !.status = "none"]
             qs == IF a.exists THEN questions_from(a.file, 1, FALSE) ELSE <<>> IN
         [a EXCEPT !.content = a.file, !.questions = qs,
                   !.pc = IF qs # <<>> THEN "ask" ELSE "refine"]
    /\ UNCHANGED askerRest

\* lines 155-173: the next question is asked; after the last one the pairs
\* are appended to the text and the text is written back
AskQuestion(event) ==
    /\ asker.pc = "ask"
    /\ asker' =
         LET q == asker.questions[Len(asker.answers) + 1]
             answers == Append(asker.answers, prompt_with_timeout(event, q.ex))
             a == [asker EXCEPT !.answers = answers, !.last_event = event] IN
         IF Len(answers) < Len(asker.questions) THEN a
         ELSE [a EXCEPT !.content = asker.content \o answer_lines(answers),
                        !.file = asker.content \o answer_lines(answers),
                        !.pc = "refine"]
    /\ UNCHANGED askerRest

\* line 175 and the dispatch on the status: refine reads review.md; the loop
\* goes on to the next round unless the status breaks it
AskRefine ==
    /\ asker.pc = "refine"
    /\ asker' =
         LET st == judge(asker.exists, asker.file)
             a == [asker EXCEPT !.refined = TRUE, !.consumed = asker.file,
                                !.status = st] IN
         IF st = "CHANGES_NEEDED" /\ ~asker.later
         THEN [a EXCEPT !.pc = "review", !.later = TRUE]
         ELSE [a EXCEPT !.pc = "done"]
    /\ UNCHANGED askerRest

NextAsk ==
    \/ \E r \in Reviews : AskReview(r)
    \/ \E event \in StdinEvents : AskQuestion(event)
    \/ AskRefine

SpecAsk == InitAsk /\ [][NextAsk]_vars

\* C33: in a review round every extracted question gets exactly one answer,
\* in order; the answer is the question's default (its inline example, or
\* empty) when the wait ran out or the input was empty; and when refine is
\* invoked all the pairs have been appended to the review file.
C33_EveryQuestionAnsweredOnce ==
    /\ Len(asker.answers) <= Len(asker.questions)
    /\ (asker.last_event \in {"timeout", "empty"}) =>
         asker.answers[Len(asker.answers)]
            = asker.questions[Len(asker.answers)].ex
    /\ asker.pc = "ask" => ~asker.refined
    /\ (asker.refined /\ asker.questions # <<>>) =>
         /\ Len(asker.answers) = Len(asker.questions)
         /\ asker.consumed = asker.content
         /\ \E base \in 1..Len(asker.consumed) :
              /\ Len(asker.consumed) = base + 1 + Len(asker.answers)
              /\ \A n \in 1..Len(asker.answers) :
                   asker.consumed[base + 1 + n].ans = asker.answers[n]

\* two questions were answered, the second by its example after a timeout,
\* and refine has read the file with both pairs
C33_Witness ==
    /\ asker.refined
    /\ Len(asker.questions) = 2
    /\ asker.questions[2].ex = "e"
    /\ asker.last_event = "timeout"
    /\ asker.answers[2] = "e"

\* ============================================ GitOps.commit at the end of run
\* subprocess.run(["git", ...], check=True): FileNotFoundError when there is
\* no git executable, CalledProcessError on a non-zero exit
git_add(c) ==
    IF ~c.git_installed THEN "FileNotFoundError"
    ELSE IF ~c.repo THEN "CalledProcessError"
    ELSE "zero"

\* git commit exits non-zero with nothing staged or when a hook rejects
git_commit(c) ==
    IF ~c.git_installed THEN "FileNotFoundError"
    ELSE IF ~c.staged \/ ~c.hook_ok THEN "CalledProcessError"
    ELSE "zero"

\* `except subprocess.CalledProcessError` (line 133)
commit_catches(e) == e = "CalledProcessError"

\* the review loop has ended with SUITABLE: phase 4 of a run starts
InitCommit ==
    /\ OrchQuiet /\ store = StoreIdle /\ gate = GateIdle /\ cleaner = CleanerIdle
    /\ codex = CodexIdle /\ planner = PlannerIdle /\ timer = TimerIdle
    /\ asker = AskerIdle
    /\ \E dry \in BOOLEAN, ex \in BOOLEAN, git \in BOOLEAN, repo \in BOOLEAN,
          dirty \in BOOLEAN, hook \in BOOLEAN :
         committer = [CommitterIdle EXCEPT
                        !.pc = "phase4", !.dry_run = dry,
                        !.existing_project = ex, !.git_installed = git,
                        !.repo = repo, !.dirty = dirty, !.hook_ok = hook]

\* a later run of the same session gets to phase 4 with success again
CommitAgain(dirty) ==
    /\ committer.pc \in {"ended", "raised"}
    /\ committer' = [committer EXCEPT !.pc = "phase4", !.dirty = dirty,
                                      !.committed = FALSE, !.failed = "none",
                                      !.phase4_status = "none"]
    /\ UNCHANGED committerRest

\* lines 202-209: no commit for an existing project; GitOps.commit returns
\* at once in a dry run (lines 124-126)
CommitEnter ==
    /\ committer.pc = "phase4"
    /\ committer' =
         IF committer.existing_project \/ committer.dry_run
         THEN [committer EXCEPT !.pc = "record"]
         ELSE [committer EXCEPT !.pc = "git_add"]
    /\ UNCHANGED committerRest

\* what a failed git call does to GitOps.commit and to run
CommitFailed(c, e) ==
    IF commit_catches(e) THEN [c EXCEPT !.pc = "record", !.failed = e]
    ELSE [c EXCEPT !.pc = "raised", !.failed = e]

\* line 130
GitAdd ==
    /\ committer.pc = "git_add"
    /\ committer' =
         IF git_add(committer) = "zero"
         THEN [committer EXCEPT !.pc = "git_commit", !.staged = committer.dirty]
         ELSE CommitFailed(committer, git_add(committer))
    /\ UNCHANGED committerRest

\* line 131
GitCommit ==
    /\ committer.pc = "git_commit"
    /\ committer' =
         IF git_commit(committer) = "zero"
         THEN [committer EXCEPT !.pc = "record", !.committed = TRUE,
                                !.staged = FALSE, !.dirty = FALSE]
         ELSE CommitFailed(committer, git_commit(committer))
    /\ UNCHANGED committerRest

\* the git executable is installed or removed between two calls
GitInstalled(git) ==
    /\ committer.pc \in {"git_add", "git_commit"}
    /\ committer.git_installed # git
    /\ committer' = [committer EXCEPT !.git_installed = git]
    /\ UNCHANGED committerRest

\* lines 210-213
Phase4Record ==
    /\ committer.pc = "record"
    /\ committer' = [committer EXCEPT !.pc = "ended",
                                      !.phase4_status = "COMPLETE"]
    /\ UNCHANGED committerRest

NextCommit ==
    \/ \E dirty \in BOOLEAN : CommitAgain(dirty)
    \/ CommitEnter
    \/ GitAdd
    \/ GitCommit
    \/ \E git \in BOOLEAN : GitInstalled(git)
    \/ Phase4Record

SpecCommit == InitCommit /\ [][NextCommit]_vars

\* C34: however the commit fails, GitOps.commit returns normally and the run
\* goes on to record phase4_status = COMPLETE: a run that got to phase 4 with
\* success never ends by an exception out of the commit.
C34_CommitFailureNotEscalated ==
    /\ committer.pc # "raised"
    /\ committer.pc = "ended" => committer.phase4_status = "COMPLETE"

\* C35: when implement returns applied = false the working tree is as it was
\* before the call: the target file has not been created or modified by it,
\* so the placeholder implement writes for a missing target is never what a
\* failed call leaves behind.
C35_FailedImplementLeavesTree ==
    (codex.pc = "done" /\ codex.op = "implement" /\ codex.result = "false") =>
        codex.writer # "implement_stub"

\* C36: whenever a run of a session, fresh or resumed, has gone through
\* phase 4, the persisted record has phase4_status = COMPLETE if and only if
\* it has phase3_status = SUITABLE.
C36_CompleteIffSuitable ==
    (runs > 0 /\ pc = "idle" /\ outcome \in {"complete", "failed"}) =>
        LET rec == load_state(progress[session_id]) IN
        (DictHas(rec, "phase4_status")
            /\ DictGet(rec, "phase4_status") = "COMPLETE")
        <=> (DictHas(rec, "phase3_status")
            /\ DictGet(rec, "phase3_status") = "SUITABLE")

\* C37: the review text scanned for questions and read by refine in a round
\* was written by the review call of that round; when the review generation
\* of the round yields no output, no text left by an earlier round is used.
C37_ReviewIsOfThisRound ==
    /\ (asker.pc = "ask" \/ asker.answers # <<>>) => asker.fresh
    /\ (asker.refined /\ asker.status # "FAILED") => asker.fresh

\* C38: a refine call that judges CHANGES_NEEDED has run a fix generation
\* against the implementation target before it returns, also in a process
\* in which implement was not called because phase 2 was skipped on resume.
C38_ChangesNeededGeneratesFix ==
    (codex.pc = "done" /\ codex.op = "refine"
        /\ codex.result = "CHANGES_NEEDED") => codex.ret.seen

\* either the code generation client or the commit of phase 4 is followed
InitDry == InitCodex \/ InitCommit

NextDry ==
    \/ committer = CommitterIdle /\ NextCodex
    \/ codex = CodexIdle /\ NextCommit

SpecDry == InitDry /\ [][NextDry]_vars

\* C39: with dry_run set, whatever the collaborators answer, CodexClient
\* invokes no generation backend, implement and refine leave the target file
\* as it was (not created, not rewritten), and no git command of the commit
\* is run.
C39_DryRunTouchesNothing ==
    /\ codex.dry_run =>
         /\ ~InGenerate /\ codex.pc # "raised"
         /\ codex.tried = <<>> /\ codex.ret.last = LastNone
         /\ codex.writer = "none" /\ codex.written_pass = 0
         /\ codex.target = IF codex.target_exists THEN <<"J", "R", "C">> ELSE <<>>
    /\ committer.dry_run =>
         /\ committer.pc \notin {"git_add", "git_commit", "raised"}
         /\ ~committer.committed /\ committer.failed = "none"

\* a dry-run implement has returned applied = true with the target missing
C39_Witness ==
    /\ codex.dry_run
    /\ codex.pc = "done" /\ codex.op = "implement" /\ codex.result = "true"
    /\ ~codex.target_exists

\* ===================================== CodexClient: expected-marker validation
MaxMarkerLen == 2   \* longest generated code (in pieces) validated

MarkerChars == {"D", "J", "R", " "}

RECURSIVE MarkerTexts(_)
MarkerTexts(n) ==
    IF n = 0 THEN {<<>>}
    ELSE LET shorter == MarkerTexts(n - 1) IN
         shorter \cup {Append(t, c) : t \in shorter, c \in MarkerChars}

\* how a backend hands the code over: as it is, in a fenced block, after a
\* sentence of prose
Wrapped(form, code) ==
    CASE form = "fenced" -> <<"F", "x", "\n">> \o code \o <<"F">>
      [] form = "prose" -> <<"x", "\n">> \o code
      [] OTHER -> code

InitMarker ==
    /\ OrchQuiet /\ store = StoreIdle /\ gate = GateIdle /\ codex = CodexIdle
    /\ planner = PlannerIdle /\ timer = TimerIdle /\ asker = AskerIdle
    /\ committer = CommitterIdle
    /\ \E form \in {"plain", "fenced", "prose"},
          code \in MarkerTexts(MaxMarkerLen) :
         cleaner = [step |-> "marked", blocks |-> <<>>,
                    text |-> Wrapped(form, code), out |-> <<>>]

\* _clean_code(text, expected_class="User")
CleanMarked ==
    /\ cleaner.step = "marked"
    /\ cleaner' = [cleaner EXCEPT !.step = "validated",
                                  !.out = clean_code(cleaner.text, TRUE)]
    /\ UNCHANGED cleanerRest

\* the next response is validated
CleanNext(form, code) ==
    /\ cleaner.step = "validated"
    /\ cleaner' = [cleaner EXCEPT !.step = "marked", !.out = <<>>,
                                  !.text = Wrapped(form, code)]
    /\ UNCHANGED cleanerRest

NextMarker ==
    \/ CleanMarked
    \/ \E form \in {"plain", "fenced", "prose"},
          code \in MarkerTexts(MaxMarkerLen) : CleanNext(form, code)

SpecMarker == InitMarker /\ [][NextMarker]_vars

\* C40: code that declares the expected class ("class User" as whole words)
\* passes the expected-marker validation: _has_expected_class is true of it
\* and _clean_code returns the cleaned code, not the empty string.
C40_DeclarationIsAccepted ==
    (cleaner.step = "validated" /\ Contains(cleaner.text, "D")) =>
        /\ cleaner.out # <<>>
        /\ Contains(cleaner.out, "D")
        /\ has_expected_class(cleaner.out)

====
